---- MODULE Spec2Model ----
(***************************************************************************)
(* State-machine model of the ncurses TUI of rust-geojson-mapper           *)
(* (src/src/main.rs): the immediate-mode layout stack (Layout, Ui), the    *)
(* text field (Ui::edit_field), fuzzy_match, and the main loop with its    *)
(* filter / scroll / render / input-dispatch steps.                        *)
(*                                                                         *)
(* Strings are sequences of character codes (the program only ever inserts *)
(* the ASCII codes 32..126 into a buffer), usize / i32 values are integers *)
(* and an Option<i32> is a sequence of length 0 (None) or 1 (Some(k)).     *)
(* Vec indices are 0-based as in the source; position i of a Vec is        *)
(* element i + 1 of the modelling sequence.                                *)
(***************************************************************************)
EXTENDS Integers, Sequences, FiniteSets, TLC

\* ---------------------------------------------------------------- bounds
\* longest search pattern the user types in the main-loop specifications
MaxLen == 3
\* longest output name the user types in SpecRename
MaxNameLen == 5
\* tallest terminal (rows) getmaxyx reports in the main-loop specifications
MaxY == 6
\* longest match list, and largest prior scroll offset, of SpecScroll
MaxTotal == 5
\* tallest terminal of SpecScroll
MaxScrollY == 9
\* longest buffer of SpecEdit
MaxEditLen == 3
\* longest pattern / text of SpecFuzzy
MaxPatternLen == 3
MaxTextLen == 4
\* largest directory and tallest terminal of SpecFollow
MaxRows == 10
MaxFollowY == 8
\* most characters the user types into a field in SpecModes
MaxModeLen == 2
\* most advances of the palette index in SpecBrowse
MaxPicks == 1
\* most events the terminal produces, most events sent to a channel, most
\* calls of Event::next and the longest timeout of a call
MaxInput == 2
MaxSends == 3
MaxCalls == 2
MaxTimeout == 3
\* frame specification: widest terminal, tallest terminal, most lines of
\* file information, characters typed into a field
MaxTermX == 48
MaxTermY == 40
MaxInfoLines == 5
MaxFrameLen == 1
\* deepest nesting and largest number of widget calls of SpecLayout
MaxDepth == 3
MaxWidgets == 4

\* ------------------------------------------------------------ key codes
\* ncurses codes as the ncurses crate defines them (used by name in main.rs)
ERR == -1
KEY_DOWN == 258
KEY_UP == 259
KEY_LEFT == 260
KEY_RIGHT == 261
KEY_BACKSPACE == 263
KEY_DC == 330
KEY_ENTER == 343
KEY_CANCEL == 355
KEY_EXIT == 361

\* ------------------------------------------------------------- helpers
Max(a, b) == IF a > b THEN a ELSE b

\* usize::saturating_sub
saturating_sub(a, b) == IF a >= b THEN a - b ELSE 0

\* all strings over alphabet A of length at most n
StringsUpTo(A, n) == UNION {[1..k -> A] : k \in 0..n}

StrInsertAfter(s, idx, ch) ==
    SubSeq(s, 1, idx + 1) \o <<ch>> \o SubSeq(s, idx + 2, Len(s))

\* String::insert(idx, ch) with a 0-based idx <= len
StrInsert(s, idx, ch) == SubSeq(s, 1, idx) \o <<ch>> \o SubSeq(s, idx + 1, Len(s))

StrRemoveNext(s, idx) == SubSeq(s, 1, idx + 1) \o SubSeq(s, idx + 3, Len(s))

\* String::remove(idx) with a 0-based idx < len
StrRemove(s, idx) == SubSeq(s, 1, idx) \o SubSeq(s, idx + 2, Len(s))

\* str::ends_with
ends_with(s, suffix) ==
    /\ Len(s) >= Len(suffix)
    /\ SubSeq(s, Len(s) - Len(suffix) + 1, Len(s)) = suffix

\* ------------------------------------------------------- fuzzy_match
\* char::to_lowercase / str::to_lowercase on ASCII: 'A'..'Z' -> 'a'..'z'
ToLowerChar(c) == IF c \in 65..90 THEN c + 32 ELSE c
to_lowercase(s) == [i \in 1..Len(s) |-> ToLowerChar(s[i])]

\* the inner `while let Some(t_char) = text_chars.next()` loop: consume text
\* from position ti (1-based) until p_char is found; the position after the
\* found character, or 0 when the iterator is exhausted without finding it
RECURSIVE ScanText(_, _, _)
ScanText(text, ti, p_char) ==
    IF ti > Len(text) THEN 0
    ELSE IF text[ti] = p_char THEN ti + 1
    ELSE ScanText(text, ti + 1, p_char)

RECURSIVE MatchLoopRestart(_, _, _, _)
MatchLoopRestart(pattern_lower, text_lower, pi, ti) ==
    IF pi > Len(pattern_lower) THEN TRUE
    ELSE LET next == ScanText(text_lower, 1, pattern_lower[pi])
         IN  IF next = 0 THEN FALSE
             ELSE MatchLoopRestart(pattern_lower, text_lower, pi + 1, next)

\* the outer `while let Some(p_char) = current_pattern_char` loop
RECURSIVE MatchLoop(_, _, _, _)
MatchLoop(pattern_lower, text_lower, pi, ti) ==
    IF pi > Len(pattern_lower) THEN TRUE
    ELSE LET next == ScanText(text_lower, ti, pattern_lower[pi])
         IN  IF next = 0 THEN FALSE
             ELSE MatchLoop(pattern_lower, text_lower, pi + 1, next)

FuzzyMatchCaseSensitive(pattern, text) ==
    IF pattern = <<>> THEN TRUE
    ELSE MatchLoop(pattern, text, 1, 1)

fuzzy_match(pattern, text) ==
    IF pattern = <<>> THEN TRUE
    ELSE MatchLoop(to_lowercase(pattern), to_lowercase(text), 1, 1)

\* ------------------------------------------------------- Ui::edit_field
\* the clamp of main.rs 173-175
ClampCursorOff(cursor, buffer) == cursor

ClampCursor(cursor, buffer) == IF cursor > Len(buffer) THEN Len(buffer) ELSE cursor

EditKeyLeftWraps(buffer, c0, key_pressed) ==
    IF key_pressed = <<KEY_LEFT>>
      THEN [buffer |-> buffer, cursor |-> IF c0 > 0 THEN c0 - 1 ELSE Len(buffer)]
    ELSE IF key_pressed = <<KEY_RIGHT>>
      THEN [buffer |-> buffer, cursor |-> IF c0 < Len(buffer) THEN c0 + 1 ELSE c0]
    ELSE IF key_pressed # <<>> /\ key_pressed[1] \in 32..126
      THEN [buffer |-> Append(buffer, key_pressed[1]), cursor |-> c0 + 1]
    ELSE [buffer |-> buffer, cursor |-> c0]

\* the `if let Some(key) = key_pressed { match key { .. } }` of edit_field,
\* on the clamped cursor c0
EditKey(buffer, c0, key_pressed) ==
    IF key_pressed = <<>> THEN [buffer |-> buffer, cursor |-> c0]
    ELSE LET key == key_pressed[1]
         IN  IF key \in 32..126
               THEN [buffer |-> IF c0 >= Len(buffer)
                                  THEN Append(buffer, key)
                                  ELSE StrInsert(buffer, c0, key),
                     cursor |-> c0 + 1]
             ELSE IF key = KEY_LEFT
               THEN [buffer |-> buffer,
                     cursor |-> IF c0 > 0 THEN c0 - 1 ELSE c0]
             ELSE IF key = KEY_RIGHT
               THEN [buffer |-> buffer,
                     cursor |-> IF c0 < Len(buffer) THEN c0 + 1 ELSE c0]
             ELSE IF key = KEY_BACKSPACE
               THEN IF c0 > 0
                      THEN [buffer |-> IF c0 - 1 < Len(buffer)
                                         THEN StrRemove(buffer, c0 - 1)
                                         ELSE buffer,
                            cursor |-> c0 - 1]
                      ELSE [buffer |-> buffer, cursor |-> c0]
             ELSE IF key = KEY_DC
               THEN [buffer |-> IF c0 < Len(buffer)
                                  THEN StrRemove(buffer, c0)
                                  ELSE buffer,
                     cursor |-> c0]
             ELSE [buffer |-> buffer, cursor |-> c0]

\* the state change of edit_field on (buffer, cursor) for key_pressed, an
\* Option<i32>; the drawing and the layout growth are not part of it
edit_field(buffer, cursor, key_pressed) ==
    EditKey(buffer, ClampCursor(cursor, buffer), key_pressed)

StringCall(op, idx, buffer) == [op |-> op, idx |-> idx, len |-> Len(buffer)]

EditCallsRemoveAtCursor(buffer, c0, key_pressed) ==
    IF key_pressed = <<>> THEN {}
    ELSE LET key == key_pressed[1]
         IN  IF key \in 32..126
               THEN IF c0 >= Len(buffer)
                      THEN {StringCall("push", Len(buffer), buffer)}
                      ELSE {StringCall("insert", c0, buffer)}
             ELSE IF key = KEY_BACKSPACE
               THEN IF c0 > 0
                      THEN {StringCall("remove", c0, buffer)}
                      ELSE {}
             ELSE IF key = KEY_DC
               THEN IF c0 < Len(buffer)
                      THEN {StringCall("remove", c0, buffer)}
                      ELSE {}
             ELSE {}

\* the String calls the match of main.rs 177-207 makes on the clamped
\* cursor c0: push, insert(idx, ch) or remove(idx), with the length of the
\* buffer at the call
EditCalls(buffer, c0, key_pressed) ==
    IF key_pressed = <<>> THEN {}
    ELSE LET key == key_pressed[1]
         IN  IF key \in 32..126
               THEN IF c0 >= Len(buffer)
                      THEN {StringCall("push", Len(buffer), buffer)}
                      ELSE {StringCall("insert", c0, buffer)}
             ELSE IF key = KEY_BACKSPACE
               THEN IF c0 > 0 /\ c0 - 1 < Len(buffer)
                      THEN {StringCall("remove", c0 - 1, buffer)}
                      ELSE {}
             ELSE IF key = KEY_DC
               THEN IF c0 < Len(buffer)
                      THEN {StringCall("remove", c0, buffer)}
                      ELSE {}
             ELSE {}

\* the String calls of one edit_field call
edit_field_calls(buffer, cursor, key_pressed) ==
    EditCalls(buffer, ClampCursor(cursor, buffer), key_pressed)

\* ------------------------------------------------------------- Layout
Vec2(x, y) == [x |-> x, y |-> y]
Vec2Add(a, b) == Vec2(a.x + b.x, a.y + b.y)
Vec2Mul(a, b) == Vec2(a.x * b.x, a.y * b.y)

\* struct Layout { kind, pos, size }
NewLayout(kind, pos) == [kind |-> kind, pos |-> pos, size |-> Vec2(0, 0)]

AvailablePosSwapped(layout) ==
    IF layout.kind = "Vert"
      THEN Vec2Add(layout.pos, Vec2Mul(layout.size, Vec2(1, 0)))
      ELSE Vec2Add(layout.pos, Vec2Mul(layout.size, Vec2(0, 1)))

available_pos(layout) ==
    IF layout.kind = "Horz"
      THEN Vec2Add(layout.pos, Vec2Mul(layout.size, Vec2(1, 0)))
      ELSE Vec2Add(layout.pos, Vec2Mul(layout.size, Vec2(0, 1)))

AddWidgetSwapped(layout, size) ==
    IF layout.kind = "Vert"
      THEN [layout EXCEPT !.size = Vec2(layout.size.x + size.x, Max(layout.size.y, size.y))]
      ELSE [layout EXCEPT !.size = Vec2(Max(layout.size.x, size.x), layout.size.y + size.y)]

add_widget(layout, size) ==
    IF layout.kind = "Horz"
      THEN [layout EXCEPT !.size = Vec2(layout.size.x + size.x, Max(layout.size.y, size.y))]
      ELSE [layout EXCEPT !.size = Vec2(Max(layout.size.x, size.x), layout.size.y + size.y)]

\* ------------------------------------------------------ program data
\* "combined_plot.png"
CombinedPlotPng ==
    <<99, 111, 109, 98, 105, 110, 101, 100, 95, 112, 108, 111, 116, 46, 112, 110, 103>>

\* the accepted image suffixes ".png", ".jpg", ".jpeg", ".bmp"
DotPng == <<46, 112, 110, 103>>
DotJpg == <<46, 106, 112, 103>>
DotJpeg == <<46, 106, 112, 101, 103>>
DotBmp == <<46, 98, 109, 112>>

\* a directory listing after geojson_files.sort():
\* "alpha.geojson", "beta.geojson", "gamma_alpha.geojson"
DirectoryListing ==
    << <<97, 108, 112, 104, 97, 46, 103, 101, 111, 106, 115, 111, 110>>,
       <<98, 101, 116, 97, 46, 103, 101, 111, 106, 115, 111, 110>>,
       <<103, 97, 109, 109, 97, 95, 97, 108, 112, 104, 97, 46,
         103, 101, 111, 106, 115, 111, 110>> >>

\* a sorted directory of k files "a.geojson", "b.geojson", ...
NumberedFiles(k) ==
    [i \in 1..k |-> <<96 + i, 46, 103, 101, 111, 106, 115, 111, 110>>]

\* (0..len).collect(): the indices 0 .. len-1 in order
AllIndices(len) == [i \in 1..len |-> i - 1]

\* the `for (i, filename) in geojson_files.iter().enumerate()` loop of the
\* re-filter step, from 0-based index i on, pushing onto acc
RECURSIVE FilterLoop(_, _, _, _)
FilterLoop(pattern, files, i, acc) ==
    IF i >= Len(files) THEN acc
    ELSE FilterLoop(pattern, files, i + 1,
                    IF fuzzy_match(pattern, files[i + 1]) THEN Append(acc, i) ELSE acc)

FilterIndicesSkipFirst(pattern, files) ==
    IF pattern = <<>> THEN AllIndices(Len(files))
    ELSE FilterLoop(pattern, files, 1, <<>>)

\* filtered_geojson_indices after clear() and the two refill branches
FilterIndices(pattern, files) ==
    IF pattern = <<>> THEN AllIndices(Len(files))
    ELSE FilterLoop(pattern, files, 0, <<>>)

\* ----------------------------------------------------------- variables
VARIABLES
    pc,                               \* position of the program
    geojson_files,                    \* sorted file names read from the directory
    current_mode,                     \* AppMode
    quit,
    ui_key,                           \* ui.key : Option<i32>
    notification,
    selected_file_index,
    scroll_offset,
    max_visible_items_in_list,        \* loop local computed at the scroll step
    filtered_geojson_indices,
    search_query_buffer,
    search_query_cursor,
    previous_search_query_buffer,
    output_filename_buffer,
    output_filename_cursor,
    previous_output_filename_buffer,
    selected_files_status,
    assigned_plot_colors,             \* per file: <<>> (None) or <<palette index>>
    current_color_index_for_assignment,
    layouts,                          \* ui.layouts
    search_query_at_entry,            \* history: pattern when '/' was pressed
    output_filename_at_entry,         \* history: name when 'r' was pressed
    tree,                             \* history: widget tree under construction
    widget_calls,                     \* history: number of widget calls made
    pattern, text, found,             \* arguments and result of a fuzzy_match call
    CTRLC,                            \* the flag the SIGINT handler sets
    interrupted,                      \* history: poll_signal ended the loop
    plotted,                          \* the plot was built and written
    cached_geojson_info,              \* per file: is the entry Some(..)
    previous_selected_file_index_in_filtered,
    current_original_file_index,      \* loop local of the metadata step
    loaded,                           \* history: this frame loaded the metadata
    drawn_at,                         \* history: where the last widget was drawn (mv)
    term_x,                           \* x of getmaxyx in the frame being rendered
    frame_calls,                      \* the Ui calls the frame has still to make
    terminal,                         \* crossterm events not yet read
    arrivals,                         \* history: every crossterm event so far
    handlers,                         \* the EventHandlers created so far
    consumer_pc,                      \* the caller of next(): idle or waiting
    waited,                           \* time the pending recv_timeout has waited
    call_timeout,                     \* timeout of the pending next()
    last_result,                      \* result of the last next(): Ok or Timeout
    enqueued,                         \* history: every event sent
    delivered                         \* history: every event next() returned

searchVars == <<search_query_buffer, search_query_cursor,
                previous_search_query_buffer, search_query_at_entry>>
nameVars == <<output_filename_buffer, output_filename_cursor,
              previous_output_filename_buffer, output_filename_at_entry>>
listVars == <<filtered_geojson_indices, selected_file_index, scroll_offset,
              max_visible_items_in_list>>
layoutVars == <<layouts, tree, widget_calls, drawn_at>>
frameVars == <<term_x, frame_calls>>
eventVars == <<terminal, arrivals, handlers, consumer_pc, waited, call_timeout,
               last_result, enqueued, delivered>>
fuzzyVars == <<pattern, text, found>>
modeVars == <<current_mode, quit, ui_key, notification, selected_files_status,
              assigned_plot_colors, current_color_index_for_assignment>>
signalVars == <<CTRLC, interrupted, plotted>>
cacheVars == <<cached_geojson_info, previous_selected_file_index_in_filtered,
               current_original_file_index, loaded>>

vars == <<pc, geojson_files, modeVars, searchVars, nameVars, listVars,
          layoutVars, frameVars, eventVars, fuzzyVars, signalVars, cacheVars>>

\* ------------------------------------------------------------ Init
\* static CTRLC: AtomicBool = AtomicBool::new(false); nothing plotted yet
NoSignal ==
    /\ CTRLC = FALSE
    /\ interrupted = FALSE
    /\ plotted = FALSE

\* vec![None; geojson_files.len()] and the index of the frame before, which
\* starts as selected_file_index = 0 (main.rs 412-413)
EmptyCache(files) ==
    /\ cached_geojson_info = [i \in 1..Len(files) |-> FALSE]
    /\ previous_selected_file_index_in_filtered = 0
    /\ current_original_file_index = 0
    /\ loaded = FALSE

\* the main loop's variables as main.rs 370-413 initialises them, over a
\* directory listing `files` and an output name `name`
LoopStart(files, name) ==
    /\ geojson_files = files
    /\ current_mode = "Navigation"
    /\ quit = FALSE
    /\ ui_key = <<>>
    /\ notification = "Select GeoJSON files to plot:"
    /\ selected_file_index = 0
    /\ scroll_offset = 0
    /\ max_visible_items_in_list = 0
    /\ filtered_geojson_indices = AllIndices(Len(files))
    /\ search_query_buffer = <<>>
    /\ search_query_cursor = 0
    /\ previous_search_query_buffer = <<>>
    /\ output_filename_buffer = name
    /\ output_filename_cursor = 0
    /\ previous_output_filename_buffer = <<>>
    /\ selected_files_status = [i \in 1..Len(files) |-> FALSE]
    /\ assigned_plot_colors = [i \in 1..Len(files) |-> <<>>]
    /\ current_color_index_for_assignment = 0
    /\ search_query_at_entry = <<>>
    /\ output_filename_at_entry = <<>>
    /\ NoSignal
    /\ EmptyCache(files)

\* Ui::default(): no layout on the stack
NoLayout ==
    /\ layouts = <<>>
    /\ tree = <<>>
    /\ widget_calls = 0
    /\ drawn_at = Vec2(0, 0)

\* no frame is being rendered
NoFrame ==
    /\ term_x = 0
    /\ frame_calls = <<>>

\* no EventHandler exists and nothing has happened on the terminal
NoEvents ==
    /\ terminal = <<>>
    /\ arrivals = <<>>
    /\ handlers = <<>>
    /\ consumer_pc = "idle"
    /\ waited = 0
    /\ call_timeout = 0
    /\ last_result = "none"
    /\ enqueued = <<>>
    /\ delivered = <<>>

\* no fuzzy_match call under observation
NoFuzzyCall ==
    /\ pattern = <<>>
    /\ text = <<>>
    /\ found = FALSE

InitWith(files, name) ==
    /\ pc = "loop"
    /\ LoopStart(files, name)
    /\ NoLayout
    /\ NoFrame
    /\ NoEvents
    /\ NoFuzzyCall

Init == InitWith(DirectoryListing, CombinedPlotPng)

\* ------------------------------------------------------ main loop
\* the SIGINT handler `callback`: CTRLC.store(true), at any point of the run
SigInt ==
    /\ pc \notin {"exit", "aborted"}
    /\ ~CTRLC
    /\ CTRLC' = TRUE
    /\ UNCHANGED <<pc, geojson_files, modeVars, searchVars, nameVars, listVars,
                   layoutVars, frameVars, eventVars, fuzzyVars, interrupted, plotted, cacheVars>>

\* `while !quit && !poll_signal()`: poll_signal is CTRLC.swap(false), and
\* is not evaluated when quit is set
LoopCondition ==
    /\ pc = "loop"
    /\ IF quit
         THEN /\ pc' = "done"
              /\ UNCHANGED <<CTRLC, interrupted>>
         ELSE IF CTRLC
           THEN /\ CTRLC' = FALSE
                /\ interrupted' = TRUE
                /\ pc' = "done"
           ELSE /\ pc' = "filter"
                /\ UNCHANGED <<CTRLC, interrupted>>
    /\ UNCHANGED <<geojson_files, modeVars, searchVars, nameVars, listVars,
                   layoutVars, frameVars, eventVars, fuzzyVars, plotted, cacheVars>>

\* the code after the loop (main.rs 1088-1099): nothing is plotted without a
\* selected file; otherwise the plot is built and written unless CTRLC is set
PostLoop ==
    /\ pc = "done"
    /\ LET files_to_plot == {i \in DOMAIN selected_files_status :
                               selected_files_status[i]}
       IN  plotted' = (files_to_plot # {} /\ ~CTRLC)
    /\ pc' = "exit"
    /\ UNCHANGED <<geojson_files, modeVars, searchVars, nameVars, listVars,
                   layoutVars, frameVars, eventVars, fuzzyVars, CTRLC, interrupted, cacheVars>>

ClampSelectionOff(selection, matches) == selection

\* the clamp that follows the refill (main.rs 439-444)
ClampSelection(selection, matches) ==
    IF matches = <<>> THEN 0
    ELSE IF selection >= Len(matches) THEN Len(matches) - 1
    ELSE selection

RefilterNoClear ==
    /\ pc = "filter"
    /\ IF \/ current_mode = "Searching"
          \/ search_query_buffer # previous_search_query_buffer
         THEN LET matches == filtered_geojson_indices
                               \o FilterIndices(search_query_buffer, geojson_files)
              IN  /\ filtered_geojson_indices' = matches
                  /\ selected_file_index' = ClampSelection(selected_file_index, matches)
                  /\ previous_search_query_buffer' = search_query_buffer
         ELSE UNCHANGED <<filtered_geojson_indices, selected_file_index,
                          previous_search_query_buffer>>
    /\ notification' = notification
    /\ pc' = "scroll"
    /\ UNCHANGED <<geojson_files, current_mode, quit, ui_key, selected_files_status,
                   assigned_plot_colors, current_color_index_for_assignment,
                   search_query_buffer, search_query_cursor, search_query_at_entry,
                   nameVars, scroll_offset, max_visible_items_in_list,
                   layoutVars, frameVars, eventVars, fuzzyVars, signalVars, cacheVars>>

\* the re-filter step and the notification reset that follows it
Refilter ==
    /\ pc = "filter"
    /\ IF \/ current_mode = "Searching"
          \/ search_query_buffer # previous_search_query_buffer
         THEN LET matches == FilterIndices(search_query_buffer, geojson_files)
              IN  /\ filtered_geojson_indices' = matches
                  /\ selected_file_index' = ClampSelection(selected_file_index, matches)
                  /\ previous_search_query_buffer' = search_query_buffer
         ELSE UNCHANGED <<filtered_geojson_indices, selected_file_index,
                          previous_search_query_buffer>>
    /\ notification' =
         IF /\ current_mode # "Searching"
            /\ search_query_buffer # <<>>
            /\ notification = "Searching for"
           THEN "Select GeoJSON files to plot:"
           ELSE notification
    /\ pc' = "scroll"
    /\ UNCHANGED <<geojson_files, current_mode, quit, ui_key, selected_files_status,
                   assigned_plot_colors, current_color_index_for_assignment,
                   search_query_buffer, search_query_cursor, search_query_at_entry,
                   nameVars, scroll_offset, max_visible_items_in_list,
                   layoutVars, frameVars, eventVars, fuzzyVars, signalVars, cacheVars>>

\* max_visible_items_in_list for a terminal of y rows (main.rs 456-464)
MaxVisibleItems(y, mode) ==
    LET header_rows == IF mode = "Searching" THEN 3 ELSE 2
        footer_rows == 0
        title_row == 1
        fixed_ui_rows == header_rows + footer_rows + title_row
    IN  Max(0, y - fixed_ui_rows)

\* selected_file_index after the clamp of main.rs 467-470
ScrollSelection(selection, current_list_len) ==
    IF selection >= current_list_len
      THEN Max(0, saturating_sub(current_list_len, 1))
      ELSE selection

ScrollOffsetNoPageClamp(selection, scroll, viewport, current_list_len) ==
    LET s1 == IF selection >= scroll + viewport /\ viewport > 0
                THEN selection - viewport + 1 ELSE scroll
        s2 == IF selection < s1 THEN selection ELSE s1
    IN  IF current_list_len <= viewport THEN 0 ELSE s2

ScrollOffsetPageJump(selection, scroll, viewport, current_list_len) ==
    LET s1 == IF selection >= scroll + viewport /\ viewport > 0
                THEN selection ELSE scroll
        s2 == IF selection < s1 THEN selection ELSE s1
    IN  IF current_list_len <= viewport THEN 0
        ELSE IF s2 > saturating_sub(current_list_len, viewport)
          THEN saturating_sub(current_list_len, viewport)
          ELSE s2

\* scroll_offset after the four rules of main.rs 472-484, in their order
ScrollOffset(selection, scroll, viewport, current_list_len) ==
    LET s1 == IF selection >= scroll + viewport /\ viewport > 0
                THEN selection - viewport + 1 ELSE scroll
        s2 == IF selection < s1 THEN selection ELSE s1
    IN  IF current_list_len <= viewport THEN 0
        ELSE IF s2 > saturating_sub(current_list_len, viewport)
          THEN saturating_sub(current_list_len, viewport)
          ELSE s2

end_display_index_unbounded(scroll, viewport, current_list_len) ==
    scroll + viewport

\* cmp::min(scroll_offset + max_visible_items_in_list,
\*          filtered_geojson_indices.len())  (main.rs 700-703)
end_display_index(scroll, viewport, current_list_len) ==
    IF scroll + viewport < current_list_len
      THEN scroll + viewport
      ELSE current_list_len

\* the rows of the file list (main.rs 704-727): one label per position of
\* scroll_offset..end_display_index, then one empty label per element of
\* (end_display_index - scroll_offset)..max_visible_items_in_list
ListItemPositions(scroll, end) == scroll..(end - 1)
ListFillRows(scroll, end, viewport) == (end - scroll)..(viewport - 1)

\* the terminal heights getmaxyx can report, up to maxY rows
TermHeights(maxY) == 0..maxY

\* getmaxyx and the scroll-adjustment step for a terminal of y rows
ScrollAdjustFor(y) ==
    /\ pc = "scroll"
    /\ LET viewport == MaxVisibleItems(y, current_mode)
           current_list_len == Len(filtered_geojson_indices)
           selection == ScrollSelection(selected_file_index, current_list_len)
       IN  /\ max_visible_items_in_list' = viewport
           /\ selected_file_index' = selection
           /\ scroll_offset' = ScrollOffset(selection, scroll_offset, viewport,
                                            current_list_len)
    /\ pc' = "pane"
    /\ UNCHANGED <<geojson_files, modeVars, searchVars, nameVars,
                   filtered_geojson_indices, layoutVars, frameVars, eventVars, fuzzyVars, signalVars, cacheVars>>

ScrollAdjust == \E y \in TermHeights(MaxY) : ScrollAdjustFor(y)

\* the pane arithmetic of main.rs 490-502: the usize subtraction
\* available_content_rows - total_right_section_title_rows underflows when
\* fewer than two list rows are visible; a build with overflow checks panics
\* there, a build without them wraps and goes on
PaneArithmetic ==
    /\ pc = "pane"
    /\ LET available_content_rows == max_visible_items_in_list + 1
           total_right_section_title_rows == 1 * 3
       IN  \/ /\ available_content_rows >= total_right_section_title_rows
              /\ pc' = "info"
           \/ /\ available_content_rows < total_right_section_title_rows
              /\ pc' = "info"
           \/ /\ available_content_rows < total_right_section_title_rows
              /\ pc' = "aborted"
    /\ UNCHANGED <<geojson_files, modeVars, searchVars, nameVars, listVars,
                   layoutVars, frameVars, eventVars, fuzzyVars, signalVars, cacheVars>>

\* the test of main.rs 512-513: load the metadata of file `current`
MustLoad(current, previous, cache) ==
    \/ current # previous
    \/ ~cache[current + 1]

\* the metadata step (main.rs 504-648): the file under the selection is
\* loaded (stat + parse) and stored, or read from the cache
MetadataCache ==
    /\ pc = "info"
    /\ LET current == IF filtered_geojson_indices = <<>> THEN 0
                      ELSE filtered_geojson_indices[selected_file_index + 1]
       IN  /\ current_original_file_index' = current
           /\ IF MustLoad(current, previous_selected_file_index_in_filtered,
                          cached_geojson_info)
                THEN /\ cached_geojson_info' =
                          [cached_geojson_info EXCEPT ![current + 1] = TRUE]
                     /\ loaded' = TRUE
                ELSE /\ loaded' = FALSE
                     /\ UNCHANGED cached_geojson_info
    /\ pc' = "render"
    /\ UNCHANGED <<geojson_files, modeVars, searchVars, nameVars, listVars,
                   layoutVars, frameVars, eventVars, fuzzyVars, signalVars,
                   previous_selected_file_index_in_filtered>>

RenderSwapped ==
    /\ pc = "render"
    /\ IF current_mode = "EditingFilename"
         THEN LET r == edit_field(search_query_buffer, search_query_cursor, ui_key)
              IN  /\ search_query_buffer' = r.buffer
                  /\ search_query_cursor' = r.cursor
         ELSE UNCHANGED <<search_query_buffer, search_query_cursor>>
    /\ IF current_mode = "Searching"
         THEN LET r == edit_field(output_filename_buffer, output_filename_cursor, ui_key)
              IN  /\ output_filename_buffer' = r.buffer
                  /\ output_filename_cursor' = r.cursor
         ELSE UNCHANGED <<output_filename_buffer, output_filename_cursor>>
    /\ pc' = "input"
    /\ UNCHANGED <<geojson_files, modeVars, previous_search_query_buffer,
                   search_query_at_entry, previous_output_filename_buffer,
                   output_filename_at_entry, listVars, layoutVars, frameVars, eventVars, fuzzyVars,
                   signalVars, cacheVars>>

RenderBothFields ==
    /\ pc = "render"
    /\ LET r == edit_field(search_query_buffer, search_query_cursor, ui_key)
       IN  /\ search_query_buffer' = r.buffer
           /\ search_query_cursor' = r.cursor
    /\ LET r == edit_field(output_filename_buffer, output_filename_cursor, ui_key)
       IN  /\ output_filename_buffer' = r.buffer
           /\ output_filename_cursor' = r.cursor
    /\ pc' = "input"
    /\ UNCHANGED <<geojson_files, modeVars, previous_search_query_buffer,
                   search_query_at_entry, previous_output_filename_buffer,
                   output_filename_at_entry, listVars, layoutVars, frameVars, eventVars, fuzzyVars,
                   signalVars, cacheVars>>

\* the widget tree of one frame (main.rs 669-864): the focused field, if
\* any, consumes ui.key; ui.layouts is empty again after Ui::end
Render ==
    /\ pc = "render"
    /\ IF current_mode = "Searching"
         THEN LET r == edit_field(search_query_buffer, search_query_cursor, ui_key)
              IN  /\ search_query_buffer' = r.buffer
                  /\ search_query_cursor' = r.cursor
         ELSE UNCHANGED <<search_query_buffer, search_query_cursor>>
    /\ IF current_mode = "EditingFilename"
         THEN LET r == edit_field(output_filename_buffer, output_filename_cursor, ui_key)
              IN  /\ output_filename_buffer' = r.buffer
                  /\ output_filename_cursor' = r.cursor
         ELSE UNCHANGED <<output_filename_buffer, output_filename_cursor>>
    /\ pc' = "input"
    /\ UNCHANGED <<geojson_files, modeVars, previous_search_query_buffer,
                   search_query_at_entry, previous_output_filename_buffer,
                   output_filename_at_entry, listVars, layoutVars, frameVars, eventVars, fuzzyVars, signalVars, cacheVars>>

\* ------------------------------------------------------ input dispatch
\* plot_colors.len(): black, red, green, blue, yellow, magenta, cyan
PlotColorsLen == 7

\* the variables the dispatch of main.rs 871-1084 reads and writes
DispatchState ==
    [mode |-> current_mode,
     quit |-> quit,
     notification |-> notification,
     selection |-> selected_file_index,
     status |-> selected_files_status,
     colors |-> assigned_plot_colors,
     color_index |-> current_color_index_for_assignment,
     matches |-> filtered_geojson_indices,
     search |-> search_query_buffer,
     previous_search |-> previous_search_query_buffer,
     name |-> output_filename_buffer,
     previous_name |-> previous_output_filename_buffer,
     search_at_entry |-> search_query_at_entry,
     name_at_entry |-> output_filename_at_entry]

MoveDownWrapping(st) ==
    IF st.selection + 1 < Len(st.matches)
      THEN [st EXCEPT !.selection = st.selection + 1]
      ELSE [st EXCEPT !.selection = 0]

MoveDown(st) ==
    IF st.selection + 1 < Len(st.matches)
      THEN [st EXCEPT !.selection = st.selection + 1] ELSE st

MoveUp(st) ==
    IF st.selection > 0 THEN [st EXCEPT !.selection = st.selection - 1] ELSE st

ToggleSelectionKeepsColor(st) ==
    IF st.matches # <<>>
      THEN LET original_index == st.matches[st.selection + 1]
               now == ~st.status[original_index + 1]
           IN  IF now
                 THEN [st EXCEPT !.status[original_index + 1] = TRUE,
                                 !.colors[original_index + 1] = <<st.color_index>>,
                                 !.notification = "Selected:",
                                 !.color_index = (st.color_index + 1) % PlotColorsLen]
                 ELSE [st EXCEPT !.status[original_index + 1] = FALSE,
                                 !.notification = "Deselected:"]
      ELSE [st EXCEPT !.notification = "No files to select in current view."]

\* space: toggle the selection status of the current file
ToggleSelection(st) ==
    IF st.matches # <<>>
      THEN LET original_index == st.matches[st.selection + 1]
               now == ~st.status[original_index + 1]
           IN  IF now
                 THEN [st EXCEPT !.status[original_index + 1] = TRUE,
                                 !.colors[original_index + 1] = <<st.color_index>>,
                                 !.notification = "Selected:",
                                 !.color_index = (st.color_index + 1) % PlotColorsLen]
                 ELSE [st EXCEPT !.status[original_index + 1] = FALSE,
                                 !.colors[original_index + 1] = <<>>,
                                 !.notification = "Deselected:"]
      ELSE [st EXCEPT !.notification = "No files to select in current view."]

\* 'c' / 'C': the next colour of the palette
CyclePaletteColor(st) ==
    [st EXCEPT !.color_index = (st.color_index + 1) % PlotColorsLen,
               !.notification = "Next assignment color set to"]

PlotSelectedAlways(st) ==
    [st EXCEPT !.quit = TRUE, !.notification = "Plotting"]

\* Enter in Navigation: leave the loop when a file is selected
PlotSelected(st) ==
    LET num_selected == Cardinality({i \in DOMAIN st.status : st.status[i]})
    IN  IF num_selected > 0
          THEN [st EXCEPT !.quit = TRUE, !.notification = "Plotting"]
          ELSE [st EXCEPT !.notification = "No files selected to plot. Use Space to select."]

\* 'r' / 'R'
StartEditingName(st) ==
    [st EXCEPT !.mode = "EditingFilename",
               !.previous_name = st.name,
               !.name_at_entry = st.name,
               !.notification = "Editing filename. Press Enter to confirm, Escape to cancel."]

\* '/'
StartFiltering(st) ==
    [st EXCEPT !.mode = "Searching",
               !.previous_search = st.search,
               !.search_at_entry = st.search,
               !.notification = "Enter search query. Press Enter to apply, Escape to cancel."]

\* AppMode::Navigation => match key
NavigationKey(st, key) ==
    IF key = KEY_DOWN \/ key = 106 THEN MoveDown(st)
    ELSE IF key = KEY_UP \/ key = 107 THEN MoveUp(st)
    ELSE IF key = 32 THEN ToggleSelection(st)
    ELSE IF key = KEY_ENTER \/ key = 10 THEN PlotSelected(st)
    ELSE IF key = 99 \/ key = 67 THEN CyclePaletteColor(st)
    ELSE IF key = 114 \/ key = 82 THEN StartEditingName(st)
    ELSE IF key = 47 THEN StartFiltering(st)
    ELSE IF key = 112 \/ key = 80 THEN [st EXCEPT !.notification = "Points visibility:"]
    ELSE IF key = 108 \/ key = 76 THEN [st EXCEPT !.notification = "Lines visibility:"]
    ELSE IF key = 111 \/ key = 79 THEN [st EXCEPT !.notification = "Polygons visibility:"]
    ELSE IF key = 113 THEN [st EXCEPT !.quit = TRUE, !.notification = "Exiting..."]
    ELSE [st EXCEPT !.notification = "Unknown key:"]

HasImageSuffix(name) ==
    \/ ends_with(name, DotPng)
    \/ ends_with(name, DotJpg)
    \/ ends_with(name, DotJpeg)
    \/ ends_with(name, DotBmp)

ConfirmNameClearing(st) ==
    IF st.name = <<>> \/ ~HasImageSuffix(st.name)
      THEN [st EXCEPT !.notification = "Reverted.", !.name = <<>>,
                      !.mode = "Navigation"]
      ELSE [st EXCEPT !.notification = "Output filename set to:",
                      !.mode = "Navigation"]

\* Enter in EditingFilename
ConfirmName(st) ==
    IF st.name = <<>>
      THEN [st EXCEPT !.notification = "Filename cannot be empty. Reverted.",
                      !.name = st.previous_name,
                      !.mode = "Navigation"]
    ELSE IF ~HasImageSuffix(st.name)
      THEN [st EXCEPT !.notification =
                        "Filename must end with .png, .jpg, .jpeg, or .bmp. Reverted.",
                      !.name = st.previous_name,
                      !.mode = "Navigation"]
    ELSE [st EXCEPT !.notification = "Output filename set to:",
                    !.mode = "Navigation"]

CancelNameKeeping(st) ==
    [st EXCEPT !.notification = "Filename editing cancelled. Reverted to previous.",
               !.mode = "Navigation"]

\* Escape in EditingFilename
CancelName(st) ==
    [st EXCEPT !.name = st.previous_name,
               !.notification = "Filename editing cancelled. Reverted to previous.",
               !.mode = "Navigation"]

EditingFilenameKeyQuits(st, key) ==
    IF key = KEY_ENTER \/ key = 10 THEN ConfirmName(st)
    ELSE IF key = KEY_EXIT \/ key = KEY_CANCEL \/ key = 27 THEN CancelName(st)
    ELSE IF key = 113 THEN [st EXCEPT !.quit = TRUE, !.notification = "Exiting..."]
    ELSE st

\* AppMode::EditingFilename => match key
EditingFilenameKey(st, key) ==
    IF key = KEY_ENTER \/ key = 10 THEN ConfirmName(st)
    ELSE IF key = KEY_EXIT \/ key = KEY_CANCEL \/ key = 27 THEN CancelName(st)
    ELSE st

ConfirmSearchMarksFiltered(st) ==
    [st EXCEPT !.notification = IF st.search = <<>>
                                  THEN "Search cleared. Showing all files."
                                  ELSE "Searching for",
               !.previous_search = st.search,
               !.mode = "Navigation"]

\* Enter in Searching
ConfirmSearch(st) ==
    [st EXCEPT !.notification = IF st.search = <<>>
                                  THEN "Search cleared. Showing all files."
                                  ELSE "Searching for",
               !.mode = "Navigation"]

CancelSearchDeselects(st, file_count) ==
    [st EXCEPT !.search = st.previous_search,
               !.matches = AllIndices(file_count),
               !.selection = 0,
               !.status = [i \in DOMAIN st.status |-> FALSE],
               !.colors = [i \in DOMAIN st.colors |-> <<>>],
               !.notification = "Search cancelled. Showing all files.",
               !.mode = "Navigation"]

\* Escape in Searching, over a directory of file_count files
CancelSearch(st, file_count) ==
    [st EXCEPT !.search = st.previous_search,
               !.matches = AllIndices(file_count),
               !.selection = 0,
               !.notification = "Search cancelled. Showing all files.",
               !.mode = "Navigation"]

\* AppMode::Searching => match key
SearchingKey(st, key, file_count) ==
    IF key = KEY_ENTER \/ key = 10 THEN ConfirmSearch(st)
    ELSE IF key = KEY_EXIT \/ key = KEY_CANCEL \/ key = 27
      THEN CancelSearch(st, file_count)
    ELSE st

\* `if key != ERR { notification.clear(); match current_mode { .. } }`
Dispatch(st, key, file_count) ==
    IF key = ERR THEN st
    ELSE LET cleared == [st EXCEPT !.notification = ""]
         IN  IF st.mode = "Navigation" THEN NavigationKey(cleared, key)
             ELSE IF st.mode = "EditingFilename" THEN EditingFilenameKey(cleared, key)
             ELSE SearchingKey(cleared, key, file_count)

\* getch returns key: ui.key = Some(key), then the dispatch and the update
\* of previous_selected_file_index_in_filtered that ends the iteration
GetchDispatch(key) ==
    /\ pc = "input"
    /\ ui_key' = <<key>>
    /\ LET st == Dispatch(DispatchState, key, Len(geojson_files))
       IN  /\ current_mode' = st.mode
           /\ quit' = st.quit
           /\ notification' = st.notification
           /\ selected_file_index' = st.selection
           /\ selected_files_status' = st.status
           /\ assigned_plot_colors' = st.colors
           /\ current_color_index_for_assignment' = st.color_index
           /\ filtered_geojson_indices' = st.matches
           /\ search_query_buffer' = st.search
           /\ previous_search_query_buffer' = st.previous_search
           /\ output_filename_buffer' = st.name
           /\ previous_output_filename_buffer' = st.previous_name
           /\ search_query_at_entry' = st.search_at_entry
           /\ output_filename_at_entry' = st.name_at_entry
    /\ previous_selected_file_index_in_filtered' = current_original_file_index
    /\ current_original_file_index' = 0
    /\ loaded' = FALSE
    /\ pc' = "loop"
    /\ UNCHANGED <<geojson_files, search_query_cursor, output_filename_cursor,
                   scroll_offset, max_visible_items_in_list, layoutVars, frameVars, eventVars, fuzzyVars,
                   signalVars, cached_geojson_info>>

\* a key that advances the palette index (space on a file that is not
\* selected, 'c', 'C') is pressed only while the index is below MaxPicks
PaletteHasRoom(key) ==
    (/\ current_mode = "Navigation"
     /\ \/ key \in {99, 67}
        \/ /\ key = 32
           /\ filtered_geojson_indices # <<>>
           /\ ~selected_files_status[filtered_geojson_indices[selected_file_index + 1] + 1])
      => current_color_index_for_assignment < MaxPicks

\* a printable key is typed only while the field that will receive it in the
\* next frame is shorter than its bound
FieldHasRoom(key) ==
    key \in 32..126 =>
      /\ (current_mode = "Searching" \/ (current_mode = "Navigation" /\ key = 47))
           => Len(search_query_buffer) < MaxLen
      /\ (current_mode = "EditingFilename"
            \/ (current_mode = "Navigation" /\ key \in {114, 82}))
           => Len(output_filename_buffer) < MaxNameLen

\* the keys of the filtering specification: moving, quitting and '/' while
\* browsing; 'a', '/', editing keys, Enter and Escape while filtering
FilterKeys(mode) ==
    IF mode = "Navigation"
      THEN {ERR, KEY_DOWN, KEY_UP, 107, 47, 10, 113}
      ELSE {ERR, 97, KEY_BACKSPACE, KEY_LEFT, KEY_ENTER, 27}

FilterInput ==
    \E key \in FilterKeys(current_mode) : FieldHasRoom(key) /\ GetchDispatch(key)

Next ==
    \/ LoopCondition
    \/ Refilter
    \/ ScrollAdjust
    \/ PaneArithmetic
    \/ MetadataCache
    \/ Render
    \/ FilterInput
    \/ PostLoop

Spec == Init /\ [][Next]_vars

\* ------------------------------------------- renaming specification
\* names the user can have committed before: every name ending in an
\* accepted suffix passes Confirm
StartNames == {DotPng, DotBmp}

InitRename == \E name \in StartNames : InitWith(DirectoryListing, name)

\* 'r' and 'q' while browsing; 'g', deleting keys, Enter and Escape while
\* renaming
NameKeys(mode) ==
    IF mode = "Navigation"
      THEN {ERR, 114, 113}
      ELSE {ERR, 103, KEY_BACKSPACE, KEY_DC, KEY_RIGHT, KEY_ENTER, 10, 27, KEY_EXIT}

NameInput ==
    \E key \in NameKeys(current_mode) : FieldHasRoom(key) /\ GetchDispatch(key)

NextRename ==
    \/ LoopCondition
    \/ Refilter
    \/ ScrollAdjust
    \/ PaneArithmetic
    \/ MetadataCache
    \/ Render
    \/ NameInput
    \/ PostLoop

SpecRename == InitRename /\ [][NextRename]_vars

\* ------------------------------------------- browsing specification
\* moving, toggling, plotting and quitting while browsing, with SIGINT
\* arriving at any time
BrowseKeys == {ERR, KEY_DOWN, 106, KEY_UP, 32, KEY_ENTER, 113}

BrowseInput == \E key \in BrowseKeys : PaletteHasRoom(key) /\ GetchDispatch(key)

NextBrowse ==
    \/ SigInt
    \/ LoopCondition
    \/ Refilter
    \/ ScrollAdjust
    \/ PaneArithmetic
    \/ MetadataCache
    \/ Render
    \/ BrowseInput
    \/ PostLoop

SpecBrowse == Init /\ [][NextBrowse]_vars

\* ------------------------------------------------ modes specification
\* one key of every arm of the Navigation dispatch but space and 'c' (they
\* change neither the mode nor quit), 'R', and an unknown key ('x'); in the two editing modes 'q' and the key that enters the other
\* editing mode while browsing, a moving key, and the confirming and
\* cancelling keys
ModeKeys(mode) ==
    IF mode = "Navigation"
      THEN {ERR, KEY_DOWN, KEY_UP, KEY_ENTER, 114, 82, 47, 112, 108, 111, 113, 120}
    ELSE IF mode = "Searching"
      THEN {ERR, 113, 114, KEY_DOWN, KEY_ENTER, 10, 27, KEY_EXIT, KEY_CANCEL}
    ELSE {ERR, 113, 47, KEY_DOWN, KEY_ENTER, 10, 27, KEY_EXIT, KEY_CANCEL}

\* a printable key is typed only while the field that will receive it in the
\* next frame holds fewer than MaxModeLen typed characters
ModeFieldHasRoom(key) ==
    key \in 32..126 =>
      /\ (current_mode = "Searching" \/ (current_mode = "Navigation" /\ key = 47))
           => Len(search_query_buffer) < MaxModeLen
      /\ (current_mode = "EditingFilename"
            \/ (current_mode = "Navigation" /\ key \in {114, 82}))
           => Len(output_filename_buffer) < Len(DotPng) + MaxModeLen

ModeInput ==
    \E key \in ModeKeys(current_mode) : ModeFieldHasRoom(key) /\ GetchDispatch(key)

\* a directory of one file and a committed output name ".png"
InitModes == InitWith(NumberedFiles(1), DotPng)

\* the scroll step on a terminal of MaxY rows
ScrollAdjustTall == ScrollAdjustFor(MaxY)

NextModes ==
    \/ LoopCondition
    \/ Refilter
    \/ ScrollAdjustTall
    \/ PaneArithmetic
    \/ MetadataCache
    \/ Render
    \/ ModeInput
    \/ PostLoop

SpecModes == InitModes /\ [][NextModes]_vars

\* --------------------------------------- scroll-following specification
\* browsing a directory of up to MaxRows files with KEY_DOWN and KEY_UP on
\* a terminal of any height up to MaxFollowY that is not resized
InitFollow == \E k \in 1..MaxRows : InitWith(NumberedFiles(k), CombinedPlotPng)

\* getmaxyx reports the height of the frame before (any height in the
\* first frame) and the scroll step runs
ScrollAdjustSteady ==
    \E y \in TermHeights(MaxFollowY) :
      /\ ui_key # <<>> =>
           MaxVisibleItems(y, current_mode) = max_visible_items_in_list
      /\ ScrollAdjustFor(y)

FollowInput == \E key \in {ERR, KEY_DOWN, KEY_UP} : GetchDispatch(key)

NextFollow ==
    \/ LoopCondition
    \/ Refilter
    \/ ScrollAdjustSteady
    \/ PaneArithmetic
    \/ MetadataCache
    \/ Render
    \/ FollowInput

SpecFollow == InitFollow /\ [][NextFollow]_vars

\* ------------------------------------------ re-filter specification
\* 'a', 'b', 'g'
RefilterAlphabet == {97, 98, 103}

\* the directories of the re-filter specification
RefilterListings == {DirectoryListing} \cup {NumberedFiles(k) : k \in 1..MaxTotal}

\* filtering with any pattern in the field over any of the directories, the
\* selection anywhere in the full list shown before
InitRefilter ==
    \E files \in RefilterListings, p \in StringsUpTo(RefilterAlphabet, MaxPatternLen) :
      \E selection \in 0..(Len(files) - 1) :
        /\ pc = "loop"
        /\ geojson_files = files
        /\ current_mode = "Searching"
        /\ quit = FALSE
        /\ ui_key = <<>>
        /\ notification = ""
        /\ selected_file_index = selection
        /\ scroll_offset = 0
        /\ max_visible_items_in_list = 0
        /\ filtered_geojson_indices = AllIndices(Len(files))
        /\ search_query_buffer = p
        /\ search_query_cursor = Len(p)
        /\ previous_search_query_buffer = <<>>
        /\ output_filename_buffer = CombinedPlotPng
        /\ output_filename_cursor = 0
        /\ previous_output_filename_buffer = <<>>
        /\ selected_files_status = [i \in 1..Len(files) |-> FALSE]
        /\ assigned_plot_colors = [i \in 1..Len(files) |-> <<>>]
        /\ current_color_index_for_assignment = 0
        /\ search_query_at_entry = <<>>
        /\ output_filename_at_entry = <<>>
        /\ NoSignal
        /\ EmptyCache(files)
        /\ NoLayout
        /\ NoFrame
        /\ NoEvents
        /\ NoFuzzyCall

\* frames in which getch times out: the pattern stays as it is
IdleInput == GetchDispatch(ERR)

NextRefilter ==
    \/ LoopCondition
    \/ Refilter
    \/ ScrollAdjust
    \/ PaneArithmetic
    \/ MetadataCache
    \/ Render
    \/ IdleInput

SpecRefilter == InitRefilter /\ [][NextRefilter]_vars

\* ------------------------------------------ scroll-step specification
\* the scroll step entered with any match-list length, any clamped
\* selection and any scroll offset left by earlier frames
InitScroll ==
    \E k \in 1..MaxTotal, mode \in {"Navigation", "Searching"} :
      \E n \in 0..k, scroll \in 0..MaxTotal :
        \E selection \in 0..Max(n - 1, 0) :
          /\ pc = "scroll"
          /\ geojson_files = NumberedFiles(k)
          /\ current_mode = mode
          /\ quit = FALSE
          /\ ui_key = <<ERR>>
          /\ notification = ""
          /\ selected_file_index = selection
          /\ scroll_offset = scroll
          /\ max_visible_items_in_list = 0
          /\ filtered_geojson_indices = AllIndices(n)
          /\ search_query_buffer = <<>>
          /\ search_query_cursor = 0
          /\ previous_search_query_buffer = <<>>
          /\ output_filename_buffer = CombinedPlotPng
          /\ output_filename_cursor = 0
          /\ previous_output_filename_buffer = <<>>
          /\ selected_files_status = [i \in 1..k |-> FALSE]
          /\ assigned_plot_colors = [i \in 1..k |-> <<>>]
          /\ current_color_index_for_assignment = 0
          /\ search_query_at_entry = <<>>
          /\ output_filename_at_entry = <<>>
          /\ NoSignal
          /\ EmptyCache(NumberedFiles(k))
          /\ NoLayout
          /\ NoFrame
          /\ NoEvents
          /\ NoFuzzyCall

ScrollAdjustAny == \E y \in TermHeights(MaxScrollY) : ScrollAdjustFor(y)

NextScroll == ScrollAdjustAny

SpecScroll == InitScroll /\ [][NextScroll]_vars

\* -------------------------------------------- text-field specification
EditAlphabet == {97, 98}

\* the first and the last printable code, two letters, the editing keys and
\* keys the field ignores
EditKeyCodes ==
    {ERR, 32, 97, 98, 126, KEY_LEFT, KEY_RIGHT, KEY_BACKSPACE, KEY_DC, 10, 27, 127}

\* a text field in any state, the cursor possibly beyond the end
InitEditField ==
    \E buffer \in StringsUpTo(EditAlphabet, MaxEditLen), cursor \in 0..(MaxEditLen + 2) :
      /\ pc = "field"
      /\ geojson_files = DirectoryListing
      /\ current_mode = "EditingFilename"
      /\ quit = FALSE
      /\ ui_key = <<>>
      /\ notification = ""
      /\ selected_file_index = 0
      /\ scroll_offset = 0
      /\ max_visible_items_in_list = 0
      /\ filtered_geojson_indices = AllIndices(Len(DirectoryListing))
      /\ search_query_buffer = <<>>
      /\ search_query_cursor = 0
      /\ previous_search_query_buffer = <<>>
      /\ output_filename_buffer = buffer
      /\ output_filename_cursor = cursor
      /\ previous_output_filename_buffer = <<>>
      /\ selected_files_status = [i \in 1..Len(DirectoryListing) |-> FALSE]
      /\ assigned_plot_colors = [i \in 1..Len(DirectoryListing) |-> <<>>]
      /\ current_color_index_for_assignment = 0
      /\ search_query_at_entry = <<>>
      /\ output_filename_at_entry = <<>>
      /\ NoSignal
      /\ EmptyCache(DirectoryListing)
      /\ NoLayout
      /\ NoFrame
      /\ NoEvents
      /\ NoFuzzyCall

\* one call of edit_field on the field with key_pressed; pc records whether
\* the branch of main.rs 173-175 was taken
EditFieldCall(key_pressed) ==
    /\ pc \in {"field", "field_called", "field_clamped"}
    /\ (key_pressed # <<>> /\ key_pressed[1] \in 32..126)
         => Len(output_filename_buffer) < MaxEditLen
    /\ LET r == edit_field(output_filename_buffer, output_filename_cursor, key_pressed)
       IN  /\ output_filename_buffer' = r.buffer
           /\ output_filename_cursor' = r.cursor
    /\ ui_key' = key_pressed
    /\ pc' = IF output_filename_cursor > Len(output_filename_buffer)
               THEN "field_clamped" ELSE "field_called"
    /\ UNCHANGED <<geojson_files, current_mode, quit, notification,
                   selected_files_status, assigned_plot_colors,
                   current_color_index_for_assignment, searchVars,
                   previous_output_filename_buffer, output_filename_at_entry,
                   listVars, layoutVars, frameVars, eventVars, fuzzyVars, signalVars, cacheVars>>

EditFieldAnyKey ==
    \E key_pressed \in {<<>>} \cup {<<k>> : k \in EditKeyCodes} :
      EditFieldCall(key_pressed)

\* the buffer replaced from outside the field, the cursor left as it was
\* (output_filename_buffer.clone_from(..) of the revert paths)
ExternalReset ==
    /\ pc \in {"field_called", "field_clamped"}
    /\ \E buffer \in StringsUpTo(EditAlphabet, MaxEditLen) :
         /\ Len(buffer) < Len(output_filename_buffer)
         /\ output_filename_buffer' = buffer
    /\ pc' = "field"
    /\ UNCHANGED <<geojson_files, modeVars, searchVars, output_filename_cursor,
                   previous_output_filename_buffer, output_filename_at_entry,
                   listVars, layoutVars, frameVars, eventVars, fuzzyVars, signalVars, cacheVars>>

NextEdit == EditFieldAnyKey \/ ExternalReset

SpecEdit == InitEditField /\ [][NextEdit]_vars

\* ------------------------------------------- fuzzy_match specification
\* 'A', 'a', 'b'
FuzzyAlphabet == {65, 97, 98}

InitFuzzy ==
    \E p \in StringsUpTo(FuzzyAlphabet, MaxPatternLen),
       t \in StringsUpTo(FuzzyAlphabet, MaxTextLen) :
      /\ pc = "fuzzy"
      /\ LoopStart(DirectoryListing, CombinedPlotPng)
      /\ NoLayout
      /\ NoFrame
      /\ NoEvents
      /\ pattern = p
      /\ text = t
      /\ found = FALSE

\* found = fuzzy_match(pattern, text)
FuzzyCall ==
    /\ pc = "fuzzy"
    /\ found' = fuzzy_match(pattern, text)
    /\ pc' = "fuzzy_done"
    /\ UNCHANGED <<geojson_files, modeVars, searchVars, nameVars, listVars,
                   layoutVars, frameVars, eventVars, pattern, text, signalVars, cacheVars>>

NextFuzzy == FuzzyCall

SpecFuzzy == InitFuzzy /\ [][NextFuzzy]_vars

\* ------------------------------------------------ layout specification
LayoutKinds == {"Vert", "Horz"}

\* declared widths, among them a negative one (x - 8 on a narrow terminal)
LayoutWidths == {-2, 1, 3}

\* a node of the widget tree: a label / edit field (a leaf of declared
\* width w) or a frame of a kind with its children in call order
Leaf(w) == [kind |-> "Leaf", w |-> w, kids |-> <<>>]
FrameNode(kind) == [kind |-> kind, w |-> 0, kids |-> <<>>]

\* sequence s with its last element replaced by e
SetLast(s, e) == [s EXCEPT ![Len(s)] = e]
Last(s) == s[Len(s)]
AddKid(stack, node) ==
    SetLast(stack, [Last(stack) EXCEPT !.kids = Append(Last(stack).kids, node)])

InitLayout ==
    /\ pc = "ui"
    /\ LoopStart(DirectoryListing, CombinedPlotPng)
    /\ NoLayout
    /\ NoFrame
    /\ NoEvents
    /\ NoFuzzyCall

loopVarsAll == <<geojson_files, modeVars, searchVars, nameVars, listVars, fuzzyVars, signalVars, cacheVars>>

\* the two text fields a widget call can be given
textFields == <<search_query_buffer, search_query_cursor,
                output_filename_buffer, output_filename_cursor>>

\* the methods of Ui: what a call does to ui.layouts (and, for edit_field,
\* to the buffer and the cursor it is given); a failed assert! / expect
\* ends the program
\* Ui::begin(Vec2::new(0, 0), kind)
Ui_begin(kind) ==
    IF layouts = <<>>
      THEN /\ layouts' = <<NewLayout(kind, Vec2(0, 0))>>
           /\ tree' = <<FrameNode(kind)>>
           /\ widget_calls' = 0
           /\ UNCHANGED <<drawn_at, pc>>
      ELSE /\ pc' = "aborted"
           /\ UNCHANGED layoutVars

\* Ui::begin_layout(kind)
Ui_begin_layout(kind) ==
    IF layouts = <<>>
      THEN /\ pc' = "aborted"
           /\ UNCHANGED layoutVars
      ELSE /\ layouts' = Append(layouts, NewLayout(kind, available_pos(Last(layouts))))
           /\ tree' = Append(tree, FrameNode(kind))
           /\ widget_calls' = widget_calls + 1
           /\ UNCHANGED <<drawn_at, pc>>

\* Ui::end_layout()
Ui_end_layout ==
    IF Len(layouts) < 2
      THEN /\ pc' = "aborted"
           /\ UNCHANGED layoutVars
      ELSE LET layout == Last(layouts)
               rest == SubSeq(layouts, 1, Len(layouts) - 1)
           IN  /\ layouts' = SetLast(rest, add_widget(Last(rest), layout.size))
               /\ tree' = AddKid(SubSeq(tree, 1, Len(tree) - 1), Last(tree))
               /\ UNCHANGED <<widget_calls, drawn_at, pc>>

\* Ui::label_fixed_width(text, width, pair)
Ui_label_fixed_width(width) ==
    IF layouts = <<>>
      THEN /\ pc' = "aborted"
           /\ UNCHANGED layoutVars
      ELSE /\ drawn_at' = available_pos(Last(layouts))
           /\ layouts' = SetLast(layouts, add_widget(Last(layouts), Vec2(width, 1)))
           /\ tree' = AddKid(tree, Leaf(width))
           /\ widget_calls' = widget_calls + 1
           /\ UNCHANGED pc

\* Ui::edit_field(&mut buffer, &mut cursor, width, ui.key) on the search
\* field or on the name field
Ui_edit_field(field, width) ==
    IF layouts = <<>>
      THEN /\ pc' = "aborted"
           /\ UNCHANGED <<layoutVars, textFields>>
      ELSE /\ IF field = "search"
                THEN LET r == edit_field(search_query_buffer, search_query_cursor,
                                         ui_key)
                     IN  /\ search_query_buffer' = r.buffer
                         /\ search_query_cursor' = r.cursor
                         /\ UNCHANGED <<output_filename_buffer, output_filename_cursor>>
                ELSE LET r == edit_field(output_filename_buffer,
                                         output_filename_cursor, ui_key)
                     IN  /\ output_filename_buffer' = r.buffer
                         /\ output_filename_cursor' = r.cursor
                         /\ UNCHANGED <<search_query_buffer, search_query_cursor>>
           /\ drawn_at' = available_pos(Last(layouts))
           /\ layouts' = SetLast(layouts, add_widget(Last(layouts), Vec2(width, 1)))
           /\ tree' = AddKid(tree, Leaf(width))
           /\ widget_calls' = widget_calls + 1
           /\ UNCHANGED pc

\* Ui::end()
Ui_end ==
    IF layouts = <<>>
      THEN /\ pc' = "aborted"
           /\ UNCHANGED layoutVars
      ELSE /\ layouts' = SubSeq(layouts, 1, Len(layouts) - 1)
           /\ tree' = SubSeq(tree, 1, Len(tree) - 1)
           /\ UNCHANGED <<widget_calls, drawn_at, pc>>

\* what a widget call leaves alone
loopVarsButFields == <<geojson_files, modeVars, previous_search_query_buffer,
                       search_query_at_entry, previous_output_filename_buffer,
                       output_filename_at_entry, listVars, fuzzyVars, signalVars,
                       cacheVars>>

\* the calls of the layout specification: any call at any time, up to
\* MaxDepth open frames and MaxWidgets widgets
UiBegin(kind) ==
    /\ pc = "ui"
    /\ Ui_begin(kind)
    /\ UNCHANGED <<loopVarsAll, frameVars, eventVars>>

UiBeginLayout(kind) ==
    /\ pc = "ui"
    /\ Len(layouts) < MaxDepth
    /\ widget_calls < MaxWidgets
    /\ Ui_begin_layout(kind)
    /\ UNCHANGED <<loopVarsAll, frameVars, eventVars>>

UiEndLayoutPopsRoot ==
    /\ pc = "ui"
    /\ IF layouts = <<>>
         THEN /\ pc' = "aborted"
              /\ UNCHANGED layoutVars
         ELSE LET layout == Last(layouts)
                  rest == SubSeq(layouts, 1, Len(layouts) - 1)
              IN  /\ layouts' = IF rest = <<>> THEN rest
                                ELSE SetLast(rest, add_widget(Last(rest), layout.size))
                  /\ tree' = IF rest = <<>> THEN <<>>
                             ELSE AddKid(SubSeq(tree, 1, Len(tree) - 1), Last(tree))
                  /\ UNCHANGED <<widget_calls, drawn_at>>
                  /\ pc' = "ui"
    /\ UNCHANGED <<loopVarsAll, frameVars, eventVars>>

UiEndLayout ==
    /\ pc = "ui"
    /\ Ui_end_layout
    /\ UNCHANGED <<loopVarsAll, frameVars, eventVars>>

UiLabelFixedWidth(width) ==
    /\ pc = "ui"
    /\ widget_calls < MaxWidgets
    /\ Ui_label_fixed_width(width)
    /\ UNCHANGED <<loopVarsAll, frameVars, eventVars>>

UiEditField(width) ==
    /\ pc = "ui"
    /\ widget_calls < MaxWidgets
    /\ Ui_edit_field("name", width)
    /\ UNCHANGED <<loopVarsButFields, frameVars, eventVars>>

UiEnd ==
    /\ pc = "ui"
    /\ Ui_end
    /\ UNCHANGED <<loopVarsAll, frameVars, eventVars>>

NextLayout ==
    \/ \E kind \in LayoutKinds : UiBegin(kind)
    \/ \E kind \in LayoutKinds : UiBeginLayout(kind)
    \/ UiEndLayout
    \/ \E width \in LayoutWidths : UiLabelFixedWidth(width)
    \/ \E width \in LayoutWidths : UiEditField(width)
    \/ UiEnd

SpecLayout == InitLayout /\ [][NextLayout]_vars

\* ------------------------------------------------ palette specification
\* selecting, deselecting and cycling the palette over a directory of two
\* files, as often as the user likes
PaletteKeys == {ERR, KEY_DOWN, KEY_UP, 32, 99}

InitPalette == InitWith(NumberedFiles(2), DotPng)

PaletteInput == \E key \in PaletteKeys : GetchDispatch(key)

NextPalette ==
    \/ LoopCondition
    \/ Refilter
    \/ ScrollAdjustTall
    \/ PaneArithmetic
    \/ MetadataCache
    \/ Render
    \/ PaletteInput

SpecPalette == InitPalette /\ [][NextPalette]_vars

\* ---------------------------------------------- selection specification
\* toggling files of a directory of two while the filter and the output
\* name are edited, confirmed and cancelled
SelectKeys(mode) ==
    IF mode = "Navigation"
      THEN {KEY_DOWN, 32, 47, 114}
    ELSE IF mode = "Searching"
      THEN {98, KEY_BACKSPACE, KEY_ENTER, 27}
    ELSE {27}

InitSelect == InitWith(NumberedFiles(2), DotPng)

SelectInput ==
    \E key \in SelectKeys(current_mode) :
       PaletteHasRoom(key) /\ ModeFieldHasRoom(key) /\ GetchDispatch(key)

NextSelect ==
    \/ LoopCondition
    \/ Refilter
    \/ ScrollAdjustTall
    \/ PaneArithmetic
    \/ MetadataCache
    \/ Render
    \/ SelectInput

SpecSelect == InitSelect /\ [][NextSelect]_vars

\* ------------------------------------------------- frame specification
\* the widget tree of main.rs 669-864, call by call, in frames of any mode
\* and terminal size
AppModes == {"Navigation", "EditingFilename", "Searching"}

\* terminal widths: none, narrower and wider than the "Search:" label, wide
TermWidths == {0, 7, 9, MaxTermX}

\* terminal heights: no list row, one (the pane subtraction underflows),
\* two, three, and enough rows for the fill loops of the right sections
FrameHeights == {0, 4, 5, 6, 7, 22, MaxTermY}

\* file_info_lines.len(): size, modified, features, bbox, then one line per
\* geometry type and the parse error
InfoLineCounts == 4..MaxInfoLines

\* help_keybinds.len()
HelpKeybindLines == 10

\* one call of a Ui method
Call(op, kind, width, field) == [op |-> op, kind |-> kind, width |-> width, field |-> field]
Begin(kind) == Call("begin", kind, 0, "")
BeginLayout(kind) == Call("begin_layout", kind, 0, "")
EndLayout == Call("end_layout", "", 0, "")
Label(width) == Call("label_fixed_width", "", width, "")
EditField(field, width) == Call("edit_field", "", width, field)
End == Call("end", "", 0, "")
Repeat(call, n) == [i \in 1..n |-> call]

left_panel_width(x) == x \div 2
right_panel_width(x) == x - left_panel_width(x)

\* main.rs 490-502 over available_content_rows; the subtraction of 501-502
\* is a usize one: below three rows a build without overflow checks wraps
\* to rows - 3 + 2^64, and 2^64 leaves 1 when divided by 3
base_section_content_height(rows) == IF rows > 3 THEN (rows - 3) \div 3 ELSE 0
remaining_rows_for_last_section(rows) ==
    IF rows >= 3 THEN (rows - 3) % 3 ELSE (rows - 3 + 1) % 3

SearchBarLeftOpen(mode, x) ==
    IF mode = "Searching"
      THEN <<BeginLayout("Horz"), Label(8), EditField("search", x - 8)>>
      ELSE <<>>

\* main.rs 674-687
SearchBar(mode, x) ==
    IF mode = "Searching"
      THEN <<BeginLayout("Horz"), Label(8), EditField("search", x - 8), EndLayout>>
      ELSE <<>>

\* main.rs 692-730: the title, the visible items and the fill
LeftPanel(width, shown, max_visible) ==
    <<BeginLayout("Vert"), Label(width)>>
      \o Repeat(Label(width), shown)
      \o Repeat(Label(width), max_visible - shown)
      \o <<EndLayout>>

\* main.rs 736-776: a title, `printed` lines and the fill up to `height`
Section(width, printed, height) ==
    <<BeginLayout("Vert"), Label(width)>>
      \o Repeat(Label(width), printed)
      \o Repeat(Label(width), Max(0, saturating_sub(height, printed)))
      \o <<EndLayout>>

\* main.rs 797-824
FilenameRow(mode, width) ==
    LET filename_label_width == 20
        remaining_width_for_field == width - filename_label_width
    IN  <<BeginLayout("Horz"), Label(filename_label_width),
          IF mode = "EditingFilename"
            THEN EditField("name", remaining_width_for_field - 2)
            ELSE Label(remaining_width_for_field),
          EndLayout>>

\* main.rs 779-856
PlottingSection(mode, width, height) ==
    <<BeginLayout("Vert"), Label(width), Label(width)>>
      \o FilenameRow(mode, width)
      \o <<Label(width), Label(width), Label(width)>>
      \o Repeat(Label(width), Max(0, saturating_sub(height, 4)))
      \o <<EndLayout>>

\* the calls of one frame (main.rs 669-864)
FrameCalls(mode, x, max_visible, shown, info_lines) ==
    LET rows == max_visible + 1
        base == base_section_content_height(rows)
        last == base + remaining_rows_for_last_section(rows)
        width == right_panel_width(x)
    IN  <<Begin("Vert"), Label(x), Label(x)>>
          \o SearchBar(mode, x)
          \o <<BeginLayout("Horz")>>
          \o LeftPanel(left_panel_width(x), shown, max_visible)
          \o <<BeginLayout("Vert")>>
          \o Section(width, info_lines, base)
          \o Section(width, HelpKeybindLines, base)
          \o PlottingSection(mode, width, last)
          \o <<EndLayout, EndLayout, Label(x), End>>

InitFrame ==
    /\ pc = "render"
    /\ LoopStart(DirectoryListing, CombinedPlotPng)
    /\ NoLayout
    /\ NoFrame
    /\ NoEvents
    /\ NoFuzzyCall

\* getmaxyx and the sizes the frame is built from (main.rs 421, 456-502,
\* 650-667, 700-703), then the first statement of the widget tree; with
\* fewer than three content rows a build with overflow checks panics at
\* the pane subtraction
FrameStart ==
    /\ pc = "render"
    /\ \E x \in TermWidths, y \in FrameHeights, info_lines \in InfoLineCounts :
         LET max_visible == MaxVisibleItems(y, current_mode)
             end == end_display_index(scroll_offset, max_visible,
                                      Len(filtered_geojson_indices))
         IN  \/ /\ term_x' = x
                /\ max_visible_items_in_list' = max_visible
                /\ frame_calls' = FrameCalls(current_mode, x, max_visible,
                                             end - scroll_offset,
                                             info_lines)
                /\ pc' = "ui"
             \/ /\ max_visible + 1 < 3
                /\ pc' = "aborted"
                /\ UNCHANGED <<term_x, max_visible_items_in_list, frame_calls>>
    /\ UNCHANGED <<geojson_files, modeVars, searchVars, nameVars,
                   filtered_geojson_indices, selected_file_index, scroll_offset,
                   layoutVars, eventVars, fuzzyVars, signalVars, cacheVars>>

\* the next call of the frame
FrameCall ==
    /\ pc = "ui"
    /\ frame_calls # <<>>
    /\ frame_calls' = Tail(frame_calls)
    /\ UNCHANGED <<term_x, eventVars>>
    /\ LET call == Head(frame_calls)
       IN  \/ /\ call.op = "begin"
              /\ Ui_begin(call.kind)
              /\ UNCHANGED loopVarsAll
           \/ /\ call.op = "begin_layout"
              /\ Ui_begin_layout(call.kind)
              /\ UNCHANGED loopVarsAll
           \/ /\ call.op = "end_layout"
              /\ Ui_end_layout
              /\ UNCHANGED loopVarsAll
           \/ /\ call.op = "label_fixed_width"
              /\ Ui_label_fixed_width(call.width)
              /\ UNCHANGED loopVarsAll
           \/ /\ call.op = "edit_field"
              /\ Ui_edit_field(call.field, call.width)
              /\ UNCHANGED loopVarsButFields
           \/ /\ call.op = "end"
              /\ Ui_end
              /\ UNCHANGED loopVarsAll

\* refresh, getch and a dispatch that can leave the program in any mode
\* (main.rs 866-1085); a character is read only while the fields have room
FrameInput ==
    /\ pc = "ui"
    /\ frame_calls = <<>>
    /\ \E mode \in AppModes, key \in {ERR, 97} :
         /\ key = 97 => /\ Len(search_query_buffer) < MaxFrameLen
                        /\ Len(output_filename_buffer)
                             < Len(CombinedPlotPng) + MaxFrameLen
         /\ current_mode' = mode
         /\ ui_key' = <<key>>
    /\ pc' = "render"
    /\ UNCHANGED <<geojson_files, quit, notification, selected_files_status,
                   assigned_plot_colors, current_color_index_for_assignment,
                   searchVars, nameVars, listVars, layoutVars, frameVars, eventVars,
                   fuzzyVars, signalVars, cacheVars>>

NextFrame ==
    \/ FrameStart
    \/ FrameCall
    \/ FrameInput

SpecFrame == InitFrame /\ [][NextFrame]_vars

\* ------------------------------------------------------------ event.rs
\* the tick interval and the longest timeout of a call, in time units
TickRate == 2

\* what crossterm can deliver: the three kinds the thread forwards and one
\* it does not (focus, paste)
CrosstermKinds == {"Key", "Mouse", "Resize", "FocusGained"}
CrosstermEvent(id, kind) == [id |-> id, kind |-> kind]

\* Event::Tick
Tick == [id |-> 0, kind |-> "Tick"]

ForwardedKeysOnly(e) ==
    IF e.kind = "Key" THEN <<[id |-> e.id, kind |-> "Input"]>>
    ELSE <<>>

\* the match of event.rs 34-45: the Event sent for a crossterm event, if any
Forwarded(e) ==
    IF e.kind = "Key" THEN <<[id |-> e.id, kind |-> "Input"]>>
    ELSE IF e.kind = "Mouse" THEN <<[id |-> e.id, kind |-> "Mouse"]>>
    ELSE IF e.kind = "Resize" THEN <<[id |-> e.id, kind |-> "TerminalEvent"]>>
    ELSE <<>>

\* EventHandler::new: the channel is empty, the receiver is held by the
\* handler, the thread is about to poll and last_tick is now
NewHandler ==
    [thread |-> "poll", elapsed |-> 0, channel |-> <<>>, receiver |-> TRUE]

\* sender.send(e).expect(..) by the thread of handler h, which goes on at
\* `then`: the event is queued, or the receiver is gone and the thread panics
Send(h, e, then, elapsed) ==
    IF handlers[h].receiver
      THEN /\ handlers' = [handlers EXCEPT ![h].channel = Append(@, e),
                                           ![h].thread = then,
                                           ![h].elapsed = elapsed]
           /\ enqueued' = Append(enqueued, e)
      ELSE /\ handlers' = [handlers EXCEPT ![h].thread = "panicked"]
           /\ UNCHANGED enqueued

appVars == <<pc, loopVarsAll, layoutVars, frameVars>>
consumerVars == <<consumer_pc, waited, call_timeout, last_result, delivered>>

\* the terminal produces an event of one of the kinds
TerminalInput(kinds) ==
    /\ pc = "events"
    /\ Len(arrivals) < MaxInput
    /\ \E kind \in kinds :
         LET e == CrosstermEvent(Len(arrivals) + 1, kind)
         IN  /\ terminal' = Append(terminal, e)
             /\ arrivals' = Append(arrivals, e)
    /\ UNCHANGED <<appVars, handlers, enqueued, consumerVars>>

UserInput == TerminalInput(CrosstermKinds)
KeyPressed == TerminalInput({"Key"})

\* one time unit passes: last_tick.elapsed() of every running thread and the
\* wait of a pending recv_timeout grow (kept up to the value they are
\* compared with)
Advance ==
    /\ pc = "events"
    /\ handlers' = [h \in DOMAIN handlers |->
                      IF handlers[h].thread # "panicked"
                           /\ handlers[h].elapsed < TickRate
                        THEN [handlers[h] EXCEPT !.elapsed = @ + 1]
                        ELSE handlers[h]]
    /\ waited' = IF consumer_pc = "waiting" /\ waited < call_timeout
                   THEN waited + 1 ELSE waited
    /\ UNCHANGED <<appVars, terminal, arrivals, enqueued, consumer_pc,
                   call_timeout, last_result, delivered>>

\* event::poll(tick_rate - last_tick.elapsed()): true as soon as an event is
\* available, false when the timeout has passed (event.rs 29-34)
ProducerPoll(h) ==
    /\ pc = "events"
    /\ handlers[h].thread = "poll"
    /\ terminal # <<>> \/ handlers[h].elapsed >= TickRate
    /\ handlers' = [handlers EXCEPT ![h].thread =
                      IF terminal # <<>> THEN "read" ELSE "tick"]
    /\ UNCHANGED <<appVars, terminal, arrivals, enqueued, consumerVars>>

\* event::read() and the match on the event (event.rs 34-46); read waits
\* when another thread has taken the event since the poll
ProducerRead(h) ==
    /\ pc = "events"
    /\ handlers[h].thread = "read"
    /\ terminal # <<>>
    /\ Len(enqueued) < MaxSends
    /\ terminal' = Tail(terminal)
    /\ LET event == Forwarded(Head(terminal))
       IN  IF event = <<>>
             THEN /\ handlers' = [handlers EXCEPT ![h].thread = "tick"]
                  /\ UNCHANGED enqueued
             ELSE Send(h, event[1], "tick", handlers[h].elapsed)
    /\ UNCHANGED <<appVars, arrivals, consumerVars>>

ProducerTickNever(h) ==
    /\ pc = "events"
    /\ handlers[h].thread = "tick"
    /\ Len(enqueued) < MaxSends
    /\ handlers' = [handlers EXCEPT ![h].thread = "poll"]
    /\ UNCHANGED <<appVars, terminal, arrivals, enqueued, consumerVars>>

\* `if last_tick.elapsed() >= tick_rate { send(Tick); last_tick = now }`
\* (event.rs 49-53)
ProducerTick(h) ==
    /\ pc = "events"
    /\ handlers[h].thread = "tick"
    /\ Len(enqueued) < MaxSends
    /\ IF handlers[h].elapsed >= TickRate
         THEN Send(h, Tick, "poll", 0)
         ELSE /\ handlers' = [handlers EXCEPT ![h].thread = "poll"]
              /\ UNCHANGED enqueued
    /\ UNCHANGED <<appVars, terminal, arrivals, consumerVars>>

\* the timeouts next() is called with: none, and one longer than a tick
CallTimeouts == {0, MaxTimeout}

\* handler.next(timeout) is called: recv_timeout starts to wait
NextCalled(timeout) ==
    /\ consumer_pc = "idle"
    /\ consumer_pc' = "waiting"
    /\ call_timeout' = timeout
    /\ waited' = 0
    /\ UNCHANGED <<last_result, delivered>>

\* recv_timeout on the channel of handler h returns the oldest event, with
\* the handler's receiver kept or dropped afterwards
Received(h, keep) ==
    /\ consumer_pc = "waiting"
    /\ handlers[h].channel # <<>>
    /\ delivered' = Append(delivered, Head(handlers[h].channel))
    /\ handlers' = [handlers EXCEPT ![h].channel = IF keep THEN Tail(@) ELSE <<>>,
                                    ![h].receiver = keep]
    /\ last_result' = "Ok"
    /\ consumer_pc' = "idle"
    /\ UNCHANGED <<waited, call_timeout>>

\* recv_timeout returns Err(Timeout): nothing arrived within the timeout
TimedOut(h, keep) ==
    /\ consumer_pc = "waiting"
    /\ handlers[h].channel = <<>>
    /\ waited >= call_timeout
    /\ handlers' = [handlers EXCEPT ![h].receiver = keep]
    /\ last_result' = "Timeout"
    /\ consumer_pc' = "idle"
    /\ UNCHANGED <<waited, call_timeout, delivered>>

\* ---- one EventHandler, next() called again and again (event.rs 24-66)
InitEvents ==
    /\ pc = "events"
    /\ LoopStart(DirectoryListing, CombinedPlotPng)
    /\ NoLayout
    /\ NoFrame
    /\ NoFuzzyCall
    /\ terminal = <<>>
    /\ arrivals = <<>>
    /\ handlers = <<NewHandler>>
    /\ consumer_pc = "idle"
    /\ waited = 0
    /\ call_timeout = 0
    /\ last_result = "none"
    /\ enqueued = <<>>
    /\ delivered = <<>>

HandlerNextCall ==
    /\ pc = "events"
    /\ \E timeout \in CallTimeouts : NextCalled(timeout)
    /\ UNCHANGED <<appVars, terminal, arrivals, handlers, enqueued>>

HandlerNextReceived ==
    /\ pc = "events"
    /\ Received(1, TRUE)
    /\ UNCHANGED <<appVars, terminal, arrivals, enqueued>>

HandlerNextTimedOut ==
    /\ pc = "events"
    /\ TimedOut(1, TRUE)
    /\ UNCHANGED <<appVars, terminal, arrivals, enqueued>>

Producer == ProducerPoll(1) \/ ProducerRead(1) \/ ProducerTick(1)
Consumer == HandlerNextCall \/ HandlerNextReceived \/ HandlerNextTimedOut

NextEvents ==
    \/ UserInput
    \/ Advance
    \/ ProducerPoll(1)
    \/ ProducerRead(1)
    \/ ProducerTick(1)
    \/ HandlerNextCall
    \/ HandlerNextReceived
    \/ HandlerNextTimedOut

SpecEvents == InitEvents /\ [][NextEvents]_vars

\* the same with keys as the only input; time passes, the thread runs and
\* the caller calls next() again
NextEventsLive ==
    \/ KeyPressed
    \/ Advance
    \/ ProducerPoll(1)
    \/ ProducerRead(1)
    \/ ProducerTick(1)
    \/ HandlerNextCall
    \/ HandlerNextReceived
    \/ HandlerNextTimedOut

SpecEventsLive ==
    /\ InitEvents
    /\ [][NextEventsLive]_vars
    /\ WF_vars(Advance)
    /\ WF_vars(Producer)
    /\ WF_vars(Consumer)

\* ---- Event::next: a new EventHandler per call, dropped when the call
\* returns; its thread is detached and runs on (event.rs 68-73)
InitEventNext ==
    /\ pc = "events"
    /\ LoopStart(DirectoryListing, CombinedPlotPng)
    /\ NoLayout
    /\ NoFrame
    /\ NoFuzzyCall
    /\ NoEvents

EventNextCall ==
    /\ pc = "events"
    /\ Len(handlers) < MaxCalls
    /\ \E timeout \in CallTimeouts : NextCalled(timeout)
    /\ handlers' = Append(handlers, NewHandler)
    /\ UNCHANGED <<appVars, terminal, arrivals, enqueued>>

EventNextReceived ==
    /\ pc = "events"
    /\ Received(Len(handlers), FALSE)
    /\ UNCHANGED <<appVars, terminal, arrivals, enqueued>>

EventNextTimedOut ==
    /\ pc = "events"
    /\ TimedOut(Len(handlers), FALSE)
    /\ UNCHANGED <<appVars, terminal, arrivals, enqueued>>

NextEventNext ==
    \/ UserInput
    \/ Advance
    \/ \E h \in DOMAIN handlers : ProducerPoll(h)
    \/ \E h \in DOMAIN handlers : ProducerRead(h)
    \/ \E h \in DOMAIN handlers : ProducerTick(h)
    \/ EventNextCall
    \/ EventNextReceived
    \/ EventNextTimedOut

SpecEventNext == InitEventNext /\ [][NextEventNext]_vars

\* =====================================================================
\* Properties
\* =====================================================================

\* C1 (as stated): after the scroll step, for every viewport height
\* including 0: if total > viewport then scroll <= selection <
\* scroll + viewport and 0 <= scroll <= total - viewport; if total <=
\* viewport then scroll = 0.
C1_ScrollInvariantAnyViewport ==
    pc = "pane" =>
      LET total == Len(filtered_geojson_indices)
          viewport == max_visible_items_in_list
      IN  /\ total > viewport =>
               /\ scroll_offset <= selected_file_index
               /\ selected_file_index < scroll_offset + viewport
               /\ 0 <= scroll_offset
               /\ scroll_offset <= total - viewport
          /\ total <= viewport => scroll_offset = 0

\* C1 (amended): after the scroll step, if total > viewport then
\* scroll <= selection and 0 <= scroll <= total - viewport, and
\* selection < scroll + viewport whenever viewport > 0; if total <= viewport
\* then scroll = 0.
C1_ScrollInvariant ==
    pc = "pane" =>
      LET total == Len(filtered_geojson_indices)
          viewport == max_visible_items_in_list
      IN  /\ total > viewport =>
               /\ scroll_offset <= selected_file_index
               /\ viewport > 0 => selected_file_index < scroll_offset + viewport
               /\ 0 <= scroll_offset
               /\ scroll_offset <= total - viewport
          /\ total <= viewport => scroll_offset = 0

\* a scroll step has moved the window down to keep the selection its last row
C1_Witness ==
    /\ pc = "pane"
    /\ max_visible_items_in_list > 0
    /\ Len(filtered_geojson_indices) > max_visible_items_in_list
    /\ scroll_offset > 0
    /\ selected_file_index = scroll_offset + max_visible_items_in_list - 1

\* C2: after every edit_field call the cursor is in [0, len(buffer)], and a
\* call entered with the cursor beyond the end acts as the same call entered
\* with the cursor at the end.
C2_CursorInRange ==
    /\ [](pc \in {"field_called", "field_clamped"} =>
            /\ 0 <= output_filename_cursor
            /\ output_filename_cursor <= Len(output_filename_buffer))
    /\ [][pc' = "field_clamped" =>
            LET atEnd == edit_field(output_filename_buffer,
                                    Len(output_filename_buffer), ui_key')
            IN  /\ output_filename_buffer' = atEnd.buffer
                /\ output_filename_cursor' = atEnd.cursor]_vars

\* a call entered with the cursor beyond the end has moved it left of the end
C2_Witness ==
    /\ pc = "field_clamped"
    /\ ui_key = <<KEY_LEFT>>
    /\ Len(output_filename_buffer) = 2
    /\ output_filename_cursor = 1

\* the case-insensitive ordered-subsequence test, stated without a scan:
\* some strictly increasing choice of positions of t spells p
SameLetter(a, b) ==
    \/ a = b
    \/ a \in 65..90 /\ b = a + 32
    \/ b \in 65..90 /\ a = b + 32

IsSubsequence(p, t) ==
    \E f \in [1..Len(p) -> 1..Len(t)] :
      /\ \A i, j \in 1..Len(p) : i < j => f[i] < f[j]
      /\ \A i \in 1..Len(p) : SameLetter(p[i], t[f[i]])

\* C3: fuzzy_match(p, t) is true iff the characters of p occur, case
\* folded, as an ordered subsequence of t.
C3_FuzzyIsSubsequence ==
    pc = "fuzzy_done" => (found <=> IsSubsequence(pattern, text))

\* a repeated pattern character matched by two distinct occurrences that are
\* not adjacent in the text
C3_Witness ==
    /\ pc = "fuzzy_done"
    /\ found
    /\ pattern = <<97, 97>>
    /\ text = <<65, 98, 97>>

\* upper() and lower() of the claim, on ASCII
Upper(str) == [i \in 1..Len(str) |-> IF str[i] \in 97..122 THEN str[i] - 32 ELSE str[i]]
Lower(str) == [i \in 1..Len(str) |-> IF str[i] \in 65..90 THEN str[i] + 32 ELSE str[i]]

\* C4: fuzzy_match(p, t) = fuzzy_match(upper(p), lower(t)).
C4_FuzzyCaseInsensitive ==
    pc = "fuzzy_done" => found = fuzzy_match(Upper(pattern), Lower(text))

\* a lower-case pattern found in an upper-case text
C4_Witness ==
    /\ pc = "fuzzy_done"
    /\ found
    /\ pattern = <<97, 98>>
    /\ text = <<65, 65, 98>>

\* C5: whenever the re-filter step recomputes the match set, the result is
\* the strictly increasing sequence of exactly the source indices whose
\* name matches the pattern; for the empty pattern it is 0..source_len-1.
C5_MatchesAreTheFilter ==
    [][(pc = "filter" /\ (current_mode = "Searching"
                            \/ search_query_buffer # previous_search_query_buffer)) =>
         LET m == filtered_geojson_indices'
             n == Len(geojson_files)
         IN  /\ \A i, j \in 1..Len(m) : i < j => m[i] < m[j]
             /\ {m[i] : i \in 1..Len(m)} =
                  {k \in 0..(n - 1) : fuzzy_match(search_query_buffer, geojson_files[k + 1])}
             /\ search_query_buffer = <<>> =>
                  (Len(m) = n /\ \A i \in 1..n : m[i] = i - 1)]_vars

\* the pattern "aa" has just been filtered to alpha and gamma_alpha
C5_Witness ==
    /\ pc = "scroll"
    /\ current_mode = "Searching"
    /\ search_query_buffer = <<97, 97>>
    /\ filtered_geojson_indices = <<0, 2>>

\* C6: at every frame boundary the selection is below the number of matches
\* when there are matches and 0 when there are none; a recomputation that
\* leaves a non-empty match set no longer than the selection sets the
\* selection to its last position.
C6_SelectionInRange ==
    /\ [](pc = "loop" =>
            IF filtered_geojson_indices # <<>>
              THEN selected_file_index < Len(filtered_geojson_indices)
              ELSE selected_file_index = 0)
    /\ [][(/\ pc = "filter"
           /\ filtered_geojson_indices' # <<>>
           /\ Len(filtered_geojson_indices') <= selected_file_index) =>
            selected_file_index' = Len(filtered_geojson_indices') - 1]_vars

\* '/' was just pressed, the recomputation shrank the match set and the
\* selection, now its last position, is above the scroll offset of the
\* frame before
C6_Witness ==
    /\ pc = "scroll"
    /\ ui_key = <<47>>
    /\ current_mode = "Searching"
    /\ filtered_geojson_indices # <<>>
    /\ selected_file_index = Len(filtered_geojson_indices) - 1
    /\ scroll_offset > selected_file_index

\* the extent of a widget tree, computed over the tree: a leaf is
\* (declared width, 1); a Vert frame is (max of its children's widths, sum
\* of their heights); a Horz frame is (sum of widths, max of heights). The
\* maximum over no children is 0; `floor` is a lower limit of every maximum.
RECURSIVE SeqSum(_)
SeqSum(q) == IF q = <<>> THEN 0 ELSE q[1] + SeqSum(Tail(q))

SeqMax(q, floor) ==
    LET values == {q[i] : i \in 1..Len(q)} \cup floor
    IN  IF values = {} THEN 0
        ELSE CHOOSE v \in values : \A u \in values : u <= v

RECURSIVE TreeExtent(_, _)
TreeExtent(node, floor) ==
    IF node.kind = "Leaf" THEN Vec2(node.w, 1)
    ELSE LET extents == [i \in 1..Len(node.kids) |-> TreeExtent(node.kids[i], floor)]
             widths == [i \in 1..Len(extents) |-> extents[i].x]
             heights == [i \in 1..Len(extents) |-> extents[i].y]
         IN  IF node.kind = "Vert"
               THEN Vec2(SeqMax(widths, floor), SeqSum(heights))
               ELSE Vec2(SeqSum(widths), SeqMax(heights, floor))

\* C7 (as stated): with every begin_layout closed, the root frame's extent
\* is the extent of the widget tree with width (Vert) and height (Horz) the
\* maximum over the children.
C7_RootExtentIsMaxOfChildren ==
    (pc = "ui" /\ Len(layouts) = 1) => layouts[1].size = TreeExtent(tree[1], {})

\* C7 (amended): the same, with every maximum taken over the children and
\* 0, the extent a frame starts with.
C7_RootExtentIsTreeExtent ==
    (pc = "ui" /\ Len(layouts) = 1) => layouts[1].size = TreeExtent(tree[1], {0})

\* a closed tree of a Vert root holding a label and a Horz frame of two
\* widgets
C7_Witness ==
    /\ pc = "ui"
    /\ Len(layouts) = 1
    /\ layouts[1].kind = "Vert"
    /\ Len(tree[1].kids) = 2
    /\ tree[1].kids[1].kind = "Leaf"
    /\ tree[1].kids[2].kind = "Horz"
    /\ Len(tree[1].kids[2].kids) = 2
    /\ layouts[1].size = Vec2(4, 2)

EscapeKeys == {<<27>>, <<KEY_EXIT>>, <<KEY_CANCEL>>}
EnterKeys == {<<10>>, <<KEY_ENTER>>}

\* C8: Escape in Searching leaves the pattern equal to its value when
\* Searching was entered, reloads the match set to all source indices in
\* order and returns to Navigation.
C8_CancelRestoresPattern ==
    [][(pc = "input" /\ current_mode = "Searching" /\ ui_key' \in EscapeKeys) =>
         /\ search_query_buffer' = search_query_at_entry
         /\ filtered_geojson_indices' = AllIndices(Len(geojson_files))
         /\ current_mode' = "Navigation"]_vars

\* the accepted image suffixes of the claim
AcceptedSuffixes == {DotPng, DotJpg, DotJpeg, DotBmp}
EndsWithAccepted(name) ==
    \E suffix \in AcceptedSuffixes :
      /\ Len(name) >= Len(suffix)
      /\ \A i \in 1..Len(suffix) : name[Len(name) - Len(suffix) + i] = suffix[i]

\* C9: Enter in EditingFilename returns to Navigation; an empty name or one
\* without an accepted suffix is replaced by the name the buffer held when
\* EditingFilename was entered and a notification is set; a name with an
\* accepted suffix is kept.
C9_ConfirmName ==
    [][(pc = "input" /\ current_mode = "EditingFilename" /\ ui_key' \in EnterKeys) =>
         /\ current_mode' = "Navigation"
         /\ IF output_filename_buffer = <<>> \/ ~EndsWithAccepted(output_filename_buffer)
              THEN /\ output_filename_buffer' = output_filename_at_entry
                   /\ notification' # ""
              ELSE output_filename_buffer' = output_filename_buffer]_vars

\* a name without an accepted suffix was rejected and the buffer holds the
\* non-empty name it had on entry
C9_Witness ==
    /\ pc = "loop"
    /\ current_mode = "Navigation"
    /\ ui_key \in EnterKeys
    /\ notification = "Filename must end with .png, .jpg, .jpeg, or .bmp. Reverted."
    /\ output_filename_buffer = output_filename_at_entry
    /\ output_filename_buffer # <<>>

\* C10: Escape in EditingFilename restores the name the buffer held when the
\* mode was entered and returns to Navigation.
C10_CancelName ==
    [][(pc = "input" /\ current_mode = "EditingFilename" /\ ui_key' \in EscapeKeys) =>
         /\ output_filename_buffer' = output_filename_at_entry
         /\ current_mode' = "Navigation"]_vars

\* editing was cancelled after the cursor had moved, and the buffer holds the
\* name it had on entry
C10_Witness ==
    /\ pc = "loop"
    /\ current_mode = "Navigation"
    /\ ui_key \in EscapeKeys
    /\ notification = "Filename editing cancelled. Reverted to previous."
    /\ output_filename_cursor > 1
    /\ output_filename_buffer = output_filename_at_entry

\* C11: when poll_signal returns true at the loop condition and the loop
\* exits for that reason, the plot is not built and written, however many
\* files are selected.
C11_NoPlotAfterInterrupt ==
    (pc = "exit" /\ interrupted) => ~plotted

\* C12: a frame whose current file already has its entry in
\* cached_geojson_info reads the entry and does not load the file again.
C12_LoadedAtMostOnce ==
    [][(pc = "info" /\ cached_geojson_info[current_original_file_index' + 1])
         => ~loaded']_vars

\* C13: Ui::end aborts whenever the stack does not hold exactly one frame,
\* empty or with two or more frames; with exactly one frame it removes the
\* root and leaves the stack empty.
C13_EndRequiresOneFrame ==
    [][UiEnd => IF Len(layouts) = 1
                  THEN pc' = "ui" /\ layouts' = <<>>
                  ELSE pc' = "aborted"]_vars

\* C14: Ui::begin aborts on a non-empty stack and otherwise pushes the root;
\* Ui::begin_layout aborts on an empty stack and otherwise pushes a frame;
\* Ui::end_layout aborts on a stack of fewer than 2 frames and otherwise pops
\* one frame; an abort is final.
C14_StackDiscipline ==
    /\ [][(\E kind \in LayoutKinds : UiBegin(kind)) =>
            IF layouts # <<>>
              THEN pc' = "aborted"
              ELSE pc' = "ui" /\ Len(layouts') = 1]_vars
    /\ [][(\E kind \in LayoutKinds : UiBeginLayout(kind)) =>
            IF layouts = <<>>
              THEN pc' = "aborted"
              ELSE /\ pc' = "ui"
                   /\ Len(layouts') = Len(layouts) + 1
                   /\ SubSeq(layouts', 1, Len(layouts)) = layouts]_vars
    /\ [][UiEndLayout =>
            IF Len(layouts) < 2
              THEN pc' = "aborted"
              ELSE pc' = "ui" /\ Len(layouts') = Len(layouts) - 1]_vars
    /\ [][pc = "aborted" => pc' = "aborted"]_vars

\* Ui::begin was called inside a nested layout and aborted
C14_Witness ==
    /\ pc = "aborted"
    /\ Len(layouts) = 2

\* C15: the recompute-and-clamp step run again with the pattern unchanged
\* leaves the matches and the selection as the first run left them.
C15_RefilterIdempotent ==
    [][(pc = "filter" /\ ui_key = <<ERR>>) =>
         /\ filtered_geojson_indices' = filtered_geojson_indices
         /\ selected_file_index' = selected_file_index]_vars

\* the step has run a second time on a pattern that shrank the match set
\* and clamped the selection to its last position
C15_Witness ==
    /\ pc = "scroll"
    /\ ui_key = <<ERR>>
    /\ search_query_buffer # <<>>
    /\ Len(filtered_geojson_indices) = 2
    /\ Len(geojson_files) > 2
    /\ selected_file_index = 1

\* C16 (as stated): over alpha.geojson, beta.geojson, gamma_alpha.geojson
\* the pattern "ga" gives the match list [1, 2].
C16_ScenarioA_BetaAndGamma ==
    (/\ pc = "scroll"
     /\ geojson_files = DirectoryListing
     /\ search_query_buffer = <<103, 97>>) => filtered_geojson_indices = <<1, 2>>

\* C16 (amended): over alpha.geojson, beta.geojson, gamma_alpha.geojson the
\* pattern "ga" gives the match list [2]: only gamma_alpha.geojson has an
\* 'a' after a 'g'.
C16_ScenarioA ==
    (/\ pc = "scroll"
     /\ geojson_files = DirectoryListing
     /\ search_query_buffer = <<103, 97>>) => filtered_geojson_indices = <<2>>

\* the re-filter step has run on the pattern "ga" over the three files, the
\* last one selected before
C16_Witness ==
    /\ pc = "scroll"
    /\ current_mode = "Searching"
    /\ geojson_files = DirectoryListing
    /\ search_query_buffer = <<103, 97>>
    /\ previous_search_query_buffer = <<103, 97>>
    /\ selected_file_index = 0
    /\ ui_key = <<>>

\* C17: MoveDown adds one to the selection iff selection + 1 < len(matches)
\* and MoveUp subtracts one iff selection > 0; otherwise the selection stays,
\* so neither wraps around and both leave the selection of an empty match
\* list as it is.
C17_MoveBoundsChecked ==
    [][(pc = "input" /\ current_mode = "Navigation") =>
         /\ ui_key' \in {<<KEY_DOWN>>, <<106>>} =>
              /\ selected_file_index' =
                   IF selected_file_index + 1 < Len(filtered_geojson_indices)
                     THEN selected_file_index + 1 ELSE selected_file_index
              /\ filtered_geojson_indices = <<>> =>
                   selected_file_index' = selected_file_index
         /\ ui_key' \in {<<KEY_UP>>, <<107>>} =>
              /\ selected_file_index' =
                   IF selected_file_index > 0
                     THEN selected_file_index - 1 ELSE selected_file_index
              /\ filtered_geojson_indices = <<>> =>
                   selected_file_index' = selected_file_index]_vars

\* KEY_DOWN was pressed while browsing an empty match list
C17_Witness ==
    /\ pc = "loop"
    /\ current_mode = "Navigation"
    /\ ui_key = <<KEY_DOWN>>
    /\ filtered_geojson_indices = <<>>
    /\ selected_file_index = 0

\* C18: the mode changes only in the input dispatch: from Navigation to
\* EditingFilename on 'r' / 'R' and to Searching on '/', and from either
\* editing mode back to Navigation on Enter or Escape; never between the two
\* editing modes; quit is set only while in Navigation, and the loop ends
\* only with quit set.
C18_ModeMachine ==
    /\ [][current_mode' # current_mode =>
            /\ pc = "input"
            /\ \/ /\ current_mode = "Navigation"
                  /\ current_mode' = "EditingFilename"
                  /\ ui_key' \in {<<114>>, <<82>>}
               \/ /\ current_mode = "Navigation"
                  /\ current_mode' = "Searching"
                  /\ ui_key' = <<47>>
               \/ /\ current_mode \in {"EditingFilename", "Searching"}
                  /\ current_mode' = "Navigation"
                  /\ ui_key' \in EnterKeys \cup EscapeKeys]_vars
    /\ [][(pc = "input" /\ current_mode = "Navigation") =>
            /\ ui_key' \in {<<114>>, <<82>>} => current_mode' = "EditingFilename"
            /\ ui_key' = <<47>> => current_mode' = "Searching"]_vars
    /\ [][quit' # quit => (quit' /\ pc = "input" /\ current_mode = "Navigation")]_vars
    /\ [][(pc = "loop" /\ pc' = "done") => quit]_vars

\* 'q' was pressed while filtering: the loop goes on in the same mode
C18_Witness ==
    /\ pc = "filter"
    /\ current_mode = "Searching"
    /\ ui_key = <<113>>
    /\ ~quit

\* C19: with viewport > 0 and total > viewport unchanged since the frame
\* before, when the selection was the last visible row and moved down by
\* one the scroll step sets scroll to selection - viewport + 1, one more
\* than before, and the selection is the last visible row again; when
\* the selection is inside the visible window the scroll stays. For
\* viewport 3 and total 10 the selections 0, 1, 2, 3 reached from the start
\* give the scrolls 0, 0, 0, 1.
C19_ScrollFollowsSelection ==
    /\ [][(/\ pc = "scroll"
           /\ ui_key # <<>>
           /\ max_visible_items_in_list > 0
           /\ Len(filtered_geojson_indices) > max_visible_items_in_list) =>
            /\ (/\ ui_key = <<KEY_DOWN>>
                /\ selected_file_index = scroll_offset + max_visible_items_in_list) =>
                 /\ scroll_offset' = selected_file_index - max_visible_items_in_list + 1
                 /\ scroll_offset' = scroll_offset + 1
                 /\ selected_file_index' = scroll_offset' + max_visible_items_in_list - 1
            /\ (/\ scroll_offset <= selected_file_index
                /\ selected_file_index < scroll_offset + max_visible_items_in_list) =>
                 scroll_offset' = scroll_offset]_vars
    /\ [](/\ pc = "pane"
          /\ max_visible_items_in_list = 3
          /\ Len(filtered_geojson_indices) = 10
          /\ ~cached_geojson_info[4]
          => /\ selected_file_index <= 3
             /\ scroll_offset = IF selected_file_index = 3 THEN 1 ELSE 0)

\* of ten files three are visible, and the selection has just moved down
\* from row 2 to row 3, shown for the first time, with the window one down
C19_Witness ==
    /\ pc = "pane"
    /\ max_visible_items_in_list = 3
    /\ Len(filtered_geojson_indices) = 10
    /\ ui_key = <<KEY_DOWN>>
    /\ selected_file_index = 3
    /\ ~cached_geojson_info[4]
    /\ scroll_offset = 1

\* C20: a printable code c (32..126) given to edit_field with the cursor at
\* any position yields buffer[0..k] + c + buffer[k..] and the cursor k + 1,
\* where k = min(cursor, len(buffer)): the buffer is one longer, and c is
\* appended when k = len(buffer).
C20_InsertAtCursor ==
    [][(/\ pc' \in {"field_called", "field_clamped"}
        /\ ui_key' # <<>>
        /\ ui_key'[1] \in 32..126) =>
         LET len == Len(output_filename_buffer)
             k == IF output_filename_cursor < len THEN output_filename_cursor ELSE len
             c == ui_key'[1]
         IN  /\ Len(output_filename_buffer') = len + 1
             /\ \A i \in 1..k : output_filename_buffer'[i] = output_filename_buffer[i]
             /\ output_filename_buffer'[k + 1] = c
             /\ \A i \in (k + 1)..len :
                  output_filename_buffer'[i + 1] = output_filename_buffer[i]
             /\ output_filename_cursor' = k + 1
             /\ k = len => output_filename_buffer' = Append(output_filename_buffer, c)]_vars

\* 'b' was inserted between the two characters of "a~"
C20_Witness ==
    /\ pc = "field_called"
    /\ ui_key = <<98>>
    /\ output_filename_buffer = <<97, 98, 126>>
    /\ output_filename_cursor = 2

\* the field and the key of an edit_field call, seen from the step that
\* makes the call: the clamped cursor k and the buffer before the call
FieldCalled == pc' \in {"field_called", "field_clamped"}
ClampedCursor ==
    IF output_filename_cursor < Len(output_filename_buffer)
      THEN output_filename_cursor ELSE Len(output_filename_buffer)

\* buffer `after` is buffer `before` without its character at 0-based idx
RemovedAt(before, after, idx) ==
    /\ Len(after) = Len(before) - 1
    /\ \A i \in 1..idx : after[i] = before[i]
    /\ \A i \in (idx + 1)..Len(after) : after[i] = before[i + 1]

\* C21: backspace with the clamped cursor k > 0 removes exactly the
\* character at index k - 1 and sets the cursor to k - 1, and with k = 0
\* changes nothing; delete-forward with k < len removes exactly the character
\* at index k and leaves the cursor at k, and with k = len changes nothing.
C21_Deletion ==
    [][FieldCalled =>
         /\ ui_key' = <<KEY_BACKSPACE>> =>
              IF ClampedCursor > 0
                THEN /\ RemovedAt(output_filename_buffer, output_filename_buffer',
                                  ClampedCursor - 1)
                     /\ output_filename_cursor' = ClampedCursor - 1
                ELSE /\ output_filename_buffer' = output_filename_buffer
                     /\ output_filename_cursor' = 0
         /\ ui_key' = <<KEY_DC>> =>
              /\ output_filename_cursor' = ClampedCursor
              /\ IF ClampedCursor < Len(output_filename_buffer)
                   THEN RemovedAt(output_filename_buffer, output_filename_buffer',
                                  ClampedCursor)
                   ELSE output_filename_buffer' = output_filename_buffer]_vars

\* backspace on a field of three characters entered with the cursor beyond
\* the end has removed the last one
C21_Witness ==
    /\ pc = "field_clamped"
    /\ ui_key = <<KEY_BACKSPACE>>
    /\ Len(output_filename_buffer) = MaxEditLen - 1
    /\ output_filename_cursor = MaxEditLen - 1

\* C22 (as stated): move-left and move-right leave the buffer and set the
\* cursor to max(cursor - 1, 0) and min(cursor + 1, len) of the cursor the
\* call was entered with; every other code that is not printable, backspace
\* or delete-forward, and an absent key, leave the buffer and an in-range
\* cursor unchanged.
C22_NonEditingCodesOfEntryCursor ==
    [][FieldCalled =>
         /\ ui_key' = <<KEY_LEFT>> =>
              /\ output_filename_buffer' = output_filename_buffer
              /\ output_filename_cursor' =
                   IF output_filename_cursor - 1 > 0 THEN output_filename_cursor - 1 ELSE 0
         /\ ui_key' = <<KEY_RIGHT>> =>
              /\ output_filename_buffer' = output_filename_buffer
              /\ output_filename_cursor' =
                   IF output_filename_cursor + 1 < Len(output_filename_buffer)
                     THEN output_filename_cursor + 1 ELSE Len(output_filename_buffer)
         /\ (ui_key' = <<>> \/ ui_key'[1] \in {ERR, 10, 27, 127}) =>
              /\ output_filename_buffer' = output_filename_buffer
              /\ output_filename_cursor <= Len(output_filename_buffer) =>
                   output_filename_cursor' = output_filename_cursor]_vars

\* C22 (amended): the same with max(k - 1, 0) and min(k + 1, len) taken of
\* the clamped cursor k = min(cursor, len).
C22_NonEditingCodes ==
    [][FieldCalled =>
         /\ ui_key' = <<KEY_LEFT>> =>
              /\ output_filename_buffer' = output_filename_buffer
              /\ output_filename_cursor' =
                   IF ClampedCursor - 1 > 0 THEN ClampedCursor - 1 ELSE 0
         /\ ui_key' = <<KEY_RIGHT>> =>
              /\ output_filename_buffer' = output_filename_buffer
              /\ output_filename_cursor' =
                   IF ClampedCursor + 1 < Len(output_filename_buffer)
                     THEN ClampedCursor + 1 ELSE Len(output_filename_buffer)
         /\ (ui_key' = <<>> \/ ui_key'[1] \in {ERR, 10, 27, 127}) =>
              /\ output_filename_buffer' = output_filename_buffer
              /\ output_filename_cursor <= Len(output_filename_buffer) =>
                   output_filename_cursor' = output_filename_cursor]_vars

\* move-left at the start of a non-empty field has left the cursor at 0
C22_Witness ==
    /\ pc = "field_called"
    /\ ui_key = <<KEY_LEFT>>
    /\ Len(output_filename_buffer) = 2
    /\ output_filename_cursor = 0

\* the two text fields
searchField == <<search_query_buffer, search_query_cursor>>
nameField == <<output_filename_buffer, output_filename_cursor>>

\* C23: the rendering step of a frame is entered once per iteration, is
\* followed by the one input read of the iteration, and applies the key of
\* the read before it at most once and to one field only: the search field
\* while Searching, the name field while EditingFilename, no field while
\* browsing; after a read that returned no key, no step but the dispatch
\* changes a buffer.
C23_SingleKeyPerFrame ==
    /\ [][pc = "render" =>
            /\ pc' = "input"
            /\ searchField' # searchField => current_mode = "Searching"
            /\ nameField' # nameField => current_mode = "EditingFilename"
            /\ ~(searchField' # searchField /\ nameField' # nameField)
            /\ current_mode = "Searching" =>
                 LET r == edit_field(search_query_buffer, search_query_cursor, ui_key)
                 IN  searchField' = <<r.buffer, r.cursor>>
            /\ current_mode = "EditingFilename" =>
                 LET r == edit_field(output_filename_buffer, output_filename_cursor,
                                     ui_key)
                 IN  nameField' = <<r.buffer, r.cursor>>]_vars
    /\ [][pc' = "render" => pc = "info"]_vars
    /\ [][pc = "input" => (pc' = "loop" /\ ui_key' # <<>>)]_vars
    /\ [][ui_key' # ui_key => pc = "input"]_vars
    /\ [][(ui_key \in {<<>>, <<ERR>>} /\ pc # "input") =>
            UNCHANGED <<search_query_buffer, output_filename_buffer>>]_vars

\* 'q' read while renaming was inserted into the name in the next frame,
\* the search pattern typed before left as it was
C23_Witness ==
    /\ pc = "input"
    /\ current_mode = "EditingFilename"
    /\ ui_key = <<113>>
    /\ output_filename_cursor > 0
    /\ output_filename_buffer[output_filename_cursor] = 113
    /\ search_query_buffer # <<>>

\* C27 as stated: between Ui::begin and Ui::end of a frame no buffer, no
\* cursor, no match set and no selection changes.
C27_RenderMutatesNothing ==
    [][pc = "render" =>
         UNCHANGED <<searchField, nameField, filtered_geojson_indices,
                     selected_file_index>>]_vars

\* C27 amended: the rendering step changes at most the buffer and the cursor
\* of the focused field (the search field while Searching, the name field
\* while EditingFilename) and neither the match set nor the selection; the
\* fields change in the rendering and dispatch steps only, the match set and
\* the selection in the re-filter and dispatch steps only.
C27_RenderMutatesFocusedField ==
    /\ [][pc = "render" =>
            /\ UNCHANGED <<filtered_geojson_indices, selected_file_index>>
            /\ current_mode # "Searching" => UNCHANGED searchField
            /\ current_mode # "EditingFilename" => UNCHANGED nameField]_vars
    /\ [][pc \notin {"render", "input"} => UNCHANGED <<searchField, nameField>>]_vars
    /\ [][pc \notin {"filter", "input"} =>
            UNCHANGED <<filtered_geojson_indices, selected_file_index>>]_vars

\* the rendering step of a Searching frame has put 'r' into the pattern
C27_Witness ==
    /\ pc = "input"
    /\ current_mode = "Searching"
    /\ ui_key = <<114>>
    /\ search_query_cursor > 0
    /\ search_query_buffer[search_query_cursor] = 114
    /\ output_filename_buffer = DotPng

\* the notifications only Enter in Searching sets
ConfirmNotifications == {"Search cleared. Showing all files.", "Searching for"}

\* C28: a printable key read while Searching is in the pattern after the
\* next rendering step; Enter read while Searching leaves the pattern as it
\* is and sets the mode to Navigation; the re-filter step of the frame after
\* that Enter leaves the pattern as it is and the match set equal to the
\* increasing sequence of the source indices whose name matches it.
C28_ConfirmCommits ==
    /\ [][(pc = "render" /\ current_mode = "Searching" /\ ui_key # <<>>
            /\ ui_key[1] \in 32..126) =>
            /\ Len(search_query_buffer') = Len(search_query_buffer) + 1
            /\ search_query_buffer'[search_query_cursor'] = ui_key[1]]_vars
    /\ [][(pc = "input" /\ current_mode = "Searching" /\ ui_key' \in EnterKeys) =>
            /\ search_query_buffer' = search_query_buffer
            /\ current_mode' = "Navigation"
            /\ notification' \in ConfirmNotifications]_vars
    /\ [][(/\ pc = "filter"
           /\ current_mode = "Navigation"
           /\ ui_key \in EnterKeys
           /\ notification \in ConfirmNotifications) =>
            LET m == filtered_geojson_indices'
                n == Len(geojson_files)
            IN  /\ pc' = "scroll"
                /\ search_query_buffer' = search_query_buffer
                /\ \A i, j \in 1..Len(m) : i < j => m[i] < m[j]
                /\ {m[i] : i \in 1..Len(m)} =
                     {k \in 0..(n - 1) :
                        fuzzy_match(search_query_buffer, geojson_files[k + 1])}]_vars

\* 'a' was typed and Enter read in the next frame: at the scroll step of
\* the frame after Enter the matches are those of "aa", not those of "a"
C28_Witness ==
    /\ pc = "scroll"
    /\ current_mode = "Navigation"
    /\ ui_key = <<KEY_ENTER>>
    /\ search_query_at_entry = <<>>
    /\ search_query_buffer = <<97, 97>>
    /\ search_query_cursor = 2
    /\ filtered_geojson_indices = <<0, 2>>

\* C29: in every frame rendered in Navigation the match set is the filter
\* of the directory listing by the current search pattern.
C29_ListMatchesPattern ==
    (pc = "render" /\ current_mode = "Navigation") =>
       filtered_geojson_indices = FilterIndices(search_query_buffer, geojson_files)

\* the first frame of a mode entered with a trigger key: the key is still
\* the last one read and the notification is the one the trigger set
FirstSearchingFrame ==
    /\ current_mode = "Searching"
    /\ ui_key = <<47>>
    /\ notification = "Enter search query. Press Enter to apply, Escape to cancel."
FirstEditingFrame ==
    /\ current_mode = "EditingFilename"
    /\ ui_key \in {<<114>>, <<82>>}
    /\ notification = "Editing filename. Press Enter to confirm, Escape to cancel."

\* C30: neither the dispatch of '/' or 'r'/'R' in Navigation nor any step
\* of the first frame of the mode it enters changes the focused buffer or
\* its cursor.
C30_TriggerKeyNotInserted ==
    /\ [][(pc = "input" /\ current_mode = "Navigation" /\ ui_key' = <<47>>) =>
            UNCHANGED searchField]_vars
    /\ [][(pc = "input" /\ current_mode = "Navigation"
            /\ ui_key' \in {<<114>>, <<82>>}) => UNCHANGED nameField]_vars
    /\ [][(pc # "input" /\ FirstSearchingFrame) => UNCHANGED searchField]_vars
    /\ [][(pc # "input" /\ FirstEditingFrame) => UNCHANGED nameField]_vars

\* the next-available position of a frame and the growth of a frame by a
\* size, as the layout rules state them
NextAvailable(frame) ==
    IF frame.kind = "Horz"
      THEN Vec2(frame.pos.x + frame.size.x, frame.pos.y)
      ELSE Vec2(frame.pos.x, frame.pos.y + frame.size.y)
Grown(frame, size) ==
    [kind |-> frame.kind,
     pos |-> frame.pos,
     size |-> IF frame.kind = "Horz"
                THEN Vec2(frame.size.x + size.x, Max(frame.size.y, size.y))
                ELSE Vec2(Max(frame.size.x, size.x), frame.size.y + size.y)]
Below(stack, n) == SubSeq(stack, 1, n)

\* C24: begin_layout pushes a frame of extent (0,0) whose origin is the
\* next-available position of the frame that was on top; a label or edit
\* field is drawn at the next-available position of the top frame and
\* grows that frame by (declared width, 1); end_layout removes the top
\* frame and grows the frame below it by the removed frame's extent (the
\* step that removes the top frame and adds it to the children of the
\* frame below); the other frames are left as they are.
C24_Placement ==
    /\ [][(layouts # <<>> /\ Len(layouts') = Len(layouts) + 1) =>
            /\ Last(layouts').size = Vec2(0, 0)
            /\ Last(layouts').pos = NextAvailable(Last(layouts))
            /\ Below(layouts', Len(layouts)) = layouts
            /\ drawn_at' = drawn_at]_vars
    /\ [][(Len(layouts') = Len(layouts) /\ widget_calls' = widget_calls + 1) =>
            LET width == Last(Last(tree').kids).w
            IN  /\ drawn_at' = NextAvailable(Last(layouts))
                /\ Last(layouts') = Grown(Last(layouts), Vec2(width, 1))
                /\ Below(layouts', Len(layouts) - 1) = Below(layouts, Len(layouts) - 1)]_vars
    /\ [][(/\ layouts' # <<>>
           /\ Len(layouts') = Len(layouts) - 1
           /\ Len(Last(tree').kids) = Len(tree[Len(tree) - 1].kids) + 1) =>
            /\ Last(layouts') = Grown(layouts[Len(layouts) - 1], Last(layouts).size)
            /\ Below(layouts', Len(layouts) - 2) = Below(layouts, Len(layouts) - 2)
            /\ drawn_at' = drawn_at]_vars

\* a Horz root holding a label of width 3 and a closed Vert frame of one
\* label of width 1, which was drawn at column 3
C24_Witness ==
    /\ pc = "ui"
    /\ Len(layouts) = 1
    /\ layouts[1].kind = "Horz"
    /\ Len(tree[1].kids) = 2
    /\ tree[1].kids[1] = Leaf(3)
    /\ tree[1].kids[2].kind = "Vert"
    /\ tree[1].kids[2].kids = <<Leaf(1)>>
    /\ drawn_at = Vec2(3, 0)
    /\ layouts[1].size = Vec2(4, 1)

\* the frames that are on the stack before and after a step
Persisting == 1..(IF Len(layouts) < Len(layouts') THEN Len(layouts) ELSE Len(layouts'))

\* C25: while a frame is on the stack no step of the widget tree the main
\* loop builds makes a component of its extent smaller.
C25_ExtentMonotonic ==
    [][pc = "ui" =>
         \A i \in Persisting :
            /\ layouts'[i].size.x >= layouts[i].size.x
            /\ layouts'[i].size.y >= layouts[i].size.y]_vars

\* the stack a call of the frame needs: none for Ui::begin, one frame for a
\* widget, begin_layout and Ui::end, two for end_layout
StackAllows(call) ==
    /\ call.op = "begin" => layouts = <<>>
    /\ call.op \in {"label_fixed_width", "edit_field", "begin_layout"} =>
         Len(layouts) >= 1
    /\ call.op = "end_layout" => Len(layouts) >= 2
    /\ call.op = "end" => Len(layouts) = 1

\* C26: in every frame the widget tree starts with Ui::begin and ends with
\* Ui::end; the stack is empty before the first and after the last call;
\* every call finds the frames it needs; no call of the tree aborts.
C26_TreeBalanced ==
    /\ [](pc = "render" => layouts = <<>>)
    /\ []((pc = "ui" /\ frame_calls = <<>>) => layouts = <<>>)
    /\ []((pc = "ui" /\ frame_calls # <<>>) => StackAllows(Head(frame_calls)))
    /\ [][(pc = "render" /\ pc' = "ui") =>
            /\ Head(frame_calls').op = "begin"
            /\ Last(frame_calls').op = "end"]_vars
    /\ [][pc = "ui" => pc' # "aborted"]_vars

\* a Searching frame on a terminal 40 rows high has closed its search bar,
\* its left panel and two sections of the right panel, and is inside the
\* file-name row (five frames on the stack)
C26_Witness ==
    /\ pc = "ui"
    /\ current_mode = "Searching"
    /\ max_visible_items_in_list = MaxTermY - 4
    /\ Len(layouts) = 5
    /\ Len(tree[1].kids) = 3
    /\ Len(tree[2].kids) = 1
    /\ Len(tree[3].kids) = 2
    /\ Head(frame_calls).op = "end_layout"

\* C31: when the loop was not ended by an interrupt, a plot is produced
\* only if the loop was ended by Enter in Navigation (the dispatch that
\* leaves the notification "Plotting"); a loop ended by 'q' produces none.
C31_PlotOnlyAfterConfirm ==
    (pc = "exit" /\ ~interrupted /\ plotted) =>
       (ui_key \in EnterKeys /\ notification = "Plotting")

\* C32: Enter read in Navigation sets quit exactly when some file is
\* selected; with none selected the mode, the match set, the selection, the
\* scroll offset and the statuses stay as they are; the evaluation of the
\* loop condition ends the loop when quit is set, and goes on when neither
\* quit nor the interrupt flag is set.
C32_ConfirmEndsLoopIffSelected ==
    /\ [][(pc = "input" /\ current_mode = "Navigation" /\ ui_key' \in EnterKeys) =>
            LET some_selected == \E i \in DOMAIN selected_files_status :
                                    selected_files_status[i]
            IN  /\ quit' = some_selected
                /\ some_selected => notification' = "Plotting"
                /\ ~some_selected =>
                     /\ notification' = "No files selected to plot. Use Space to select."
                     /\ UNCHANGED <<current_mode, filtered_geojson_indices,
                                    selected_file_index, scroll_offset,
                                    selected_files_status>>]_vars
    /\ [][(pc = "loop" /\ quit /\ pc' # pc) => pc' = "done"]_vars
    /\ [][(pc = "loop" /\ ~quit /\ ~CTRLC /\ pc' # pc) => pc' = "filter"]_vars

\* the loop has ended on Enter with the second file selected
C32_Witness ==
    /\ pc = "done"
    /\ ~interrupted
    /\ ui_key = <<KEY_ENTER>>
    /\ quit
    /\ selected_files_status = <<FALSE, TRUE, FALSE>>

\* C33: a file is selected exactly when it has a colour; the palette index
\* is in 0..6; space on a file that is not selected gives it the colour at
\* the index and advances the index by one modulo 7; space on a selected
\* file clears its colour and leaves the index; 'c' / 'C' advances the
\* index by one modulo 7.
C33_SelectionColourConsistent ==
    /\ [](\A i \in DOMAIN selected_files_status :
            selected_files_status[i] <=> assigned_plot_colors[i] # <<>>)
    /\ [](DOMAIN assigned_plot_colors = DOMAIN geojson_files)
    /\ [](current_color_index_for_assignment \in 0..6)
    /\ [][(/\ pc = "input"
           /\ current_mode = "Navigation"
           /\ ui_key' = <<32>>
           /\ filtered_geojson_indices # <<>>) =>
            LET i == filtered_geojson_indices[selected_file_index + 1] + 1
            IN  IF ~selected_files_status[i]
                  THEN /\ selected_files_status'[i]
                       /\ assigned_plot_colors'[i] = <<current_color_index_for_assignment>>
                       /\ current_color_index_for_assignment' =
                            (current_color_index_for_assignment + 1) % 7
                  ELSE /\ ~selected_files_status'[i]
                       /\ assigned_plot_colors'[i] = <<>>
                       /\ UNCHANGED current_color_index_for_assignment]_vars
    /\ [][(pc = "input" /\ current_mode = "Navigation"
            /\ ui_key' \in {<<99>>, <<67>>}) =>
            /\ current_color_index_for_assignment' =
                 (current_color_index_for_assignment + 1) % 7
            /\ UNCHANGED <<selected_files_status, assigned_plot_colors>>]_vars

\* the second file was just given the last colour of the palette and the
\* index is back at 0; the first file was selected and deselected before
C33_Witness ==
    /\ pc = "loop"
    /\ ui_key = <<32>>
    /\ selected_files_status = <<FALSE, TRUE>>
    /\ assigned_plot_colors = <<<<>>, <<6>>>>
    /\ current_color_index_for_assignment = 0
    /\ cached_geojson_info = <<TRUE, TRUE>>

\* C34: selected_files_status and assigned_plot_colors have one entry per
\* source file; they change only when space is pressed in Navigation on a
\* non-empty match set, and then exactly the entry of the source index
\* matches[selection] flips; every other step (re-filter, confirm or cancel
\* of the filter, moving, editing the output name, space on an empty match
\* set) leaves both unchanged.
C34_OnlyToggleChangesStatus ==
    /\ [](/\ DOMAIN selected_files_status = DOMAIN geojson_files
          /\ DOMAIN assigned_plot_colors = DOMAIN selected_files_status)
    /\ [][(\/ selected_files_status' # selected_files_status
           \/ assigned_plot_colors' # assigned_plot_colors) =>
            /\ pc = "input"
            /\ current_mode = "Navigation"
            /\ ui_key' = <<32>>
            /\ filtered_geojson_indices # <<>>
            /\ LET i == filtered_geojson_indices[selected_file_index + 1] + 1
               IN  /\ selected_files_status' =
                        [selected_files_status EXCEPT ![i] = ~selected_files_status[i]]
                   /\ \A j \in DOMAIN assigned_plot_colors :
                        j # i => assigned_plot_colors'[j] = assigned_plot_colors[j]]_vars
    /\ [][(/\ pc = "input"
           /\ current_mode = "Navigation"
           /\ ui_key' = <<32>>
           /\ filtered_geojson_indices # <<>>) =>
            LET i == filtered_geojson_indices[selected_file_index + 1] + 1
            IN  selected_files_status'[i] = ~selected_files_status[i]]_vars

\* "a.geojson" was selected, then the filter "b" was typed and confirmed:
\* only "b.geojson" is in view and "a.geojson" is still selected
C34_Witness ==
    /\ pc = "loop"
    /\ current_mode = "Navigation"
    /\ ui_key \in EnterKeys
    /\ search_query_buffer = <<98>>
    /\ selected_files_status = <<TRUE, FALSE>>
    /\ assigned_plot_colors = <<<<0>>, <<>>>>
    /\ filtered_geojson_indices = <<1>>

\* C35: between the scroll step and the input of a frame, scroll_offset is
\* at most end_display_index = min(scroll_offset + viewport, len(matches));
\* every drawn position and the selection used for the metadata lookup are
\* below len(matches) and hold an index below the number of source files;
\* the list items and the fill rows together are exactly viewport rows.
C35_ListWindowInRange ==
    pc \in {"pane", "info", "render"} =>
      LET len == Len(filtered_geojson_indices)
          viewport == max_visible_items_in_list
          end == end_display_index(scroll_offset, viewport, len)
          items == ListItemPositions(scroll_offset, end)
          fill == ListFillRows(scroll_offset, end, viewport)
      IN  /\ scroll_offset >= 0
          /\ scroll_offset <= end
          /\ end <= len
          /\ end <= scroll_offset + viewport
          /\ \A i \in items :
                /\ i < len
                /\ filtered_geojson_indices[i + 1] \in 0..(Len(geojson_files) - 1)
          /\ filtered_geojson_indices # <<>> =>
                /\ selected_file_index \in 0..(len - 1)
                /\ filtered_geojson_indices[selected_file_index + 1]
                     \in 0..(Len(geojson_files) - 1)
          /\ Cardinality(items) + Cardinality(fill) = viewport

\* the filter "aa" leaves two of the three files, one row is visible and the
\* list is scrolled to the second match, "gamma_alpha.geojson"
C35_Witness ==
    /\ pc = "render"
    /\ filtered_geojson_indices = <<0, 2>>
    /\ max_visible_items_in_list = 1
    /\ selected_file_index = 1
    /\ scroll_offset = 1
    /\ current_original_file_index = 2

\* C36: for every terminal height the pane subtraction
\* available_content_rows - total_right_section_title_rows, with
\* available_content_rows = max_visible_items_in_list + 1 and three title
\* rows, is not negative, and no frame aborts at it.
C36_PaneSubtractionNeverUnderflows ==
    /\ pc = "pane" => (max_visible_items_in_list + 1) - 1 * 3 >= 0
    /\ pc # "aborted"

\* C37: every call of edit_field, on any buffer and any cursor (also one
\* left beyond the end of a buffer that was replaced by a shorter one),
\* inserts at an index <= len(buffer) and removes at an index < len(buffer).
C37_EditIndicesInBuffer ==
    [][pc' \in {"field_called", "field_clamped"} =>
         \A call \in edit_field_calls(output_filename_buffer,
                                       output_filename_cursor, ui_key') :
            /\ call.idx >= 0
            /\ call.op \in {"push", "insert"} => call.idx <= call.len
            /\ call.op = "remove" => call.idx < call.len]_vars

\* Backspace on a field of two characters whose cursor was beyond the end:
\* the cursor was clamped to 2 and the character at index 1 removed
C37_Witness ==
    /\ pc = "field_clamped"
    /\ ui_key = <<KEY_BACKSPACE>>
    /\ output_filename_buffer = <<97>>
    /\ output_filename_cursor = 1

\* the key, mouse and resize events of a sequence of crossterm events, each
\* as the Event it is to be sent as
ExpectedSends(events) ==
    LET kept == SelectSeq(events, LAMBDA e : e.kind \in {"Key", "Mouse", "Resize"})
        name == [Key |-> "Input", Mouse |-> "Mouse", Resize |-> "TerminalEvent"]
    IN  [i \in 1..Len(kept) |-> [id |-> kept[i].id, kind |-> name[kept[i].kind]]]

\* the crossterm events read so far
ReadSoFar == SubSeq(arrivals, 1, Len(arrivals) - Len(terminal))

\* C38: one producer thread and one consumer share the channel; what next()
\* has returned followed by what is still queued is exactly what the
\* producer has sent, in the order sent (nothing lost, nothing twice); the
\* producer sends the key, mouse and resize events it has read, in order,
\* and Ticks, and a step of the producer changes nothing but the channel
\* and its own position.
C38_ChannelFifo ==
    /\ [](Len(handlers) = 1 /\ handlers[1].receiver)
    /\ [](enqueued = delivered \o handlers[1].channel)
    /\ [](SelectSeq(enqueued, LAMBDA e : e # Tick) = ExpectedSends(ReadSoFar))
    /\ [][handlers'[1].thread # handlers[1].thread =>
            UNCHANGED <<appVars, consumerVars, arrivals>>]_vars
    /\ [][delivered' # delivered =>
            /\ handlers[1].channel # <<>>
            /\ delivered' = Append(delivered, Head(handlers[1].channel))
            /\ handlers'[1].channel = Tail(handlers[1].channel)]_vars

\* a key was read, sent and returned by next(), then a Tick; a focus event
\* was read and not sent
C38_Witness ==
    /\ delivered = <<[id |-> 1, kind |-> "Input"], Tick>>
    /\ arrivals = <<CrosstermEvent(1, "Key"), CrosstermEvent(2, "FocusGained")>>
    /\ terminal = <<>>
    /\ handlers[1].channel = <<Tick>>
    /\ last_result = "Ok"

\* C39: with no input the producer sends a Tick once the tick interval has
\* passed, and a caller that calls next() again and again receives it; every
\* single next(timeout) returns, with the timeout error when nothing arrived.
C39_WaitIsBounded ==
    /\ [](arrivals = <<>>) => <>(\E i \in DOMAIN delivered : delivered[i] = Tick)
    /\ (consumer_pc = "waiting") ~> (consumer_pc = "idle")
    /\ [][(consumer_pc = "waiting" /\ consumer_pc' = "idle"
             /\ handlers[1].channel = <<>>) => last_result' = "Timeout"]_vars

\* no input: a call with timeout 0 timed out, a later call received the Tick
C39_Witness ==
    /\ arrivals = <<>>
    /\ delivered = <<Tick>>
    /\ call_timeout = 0
    /\ last_result = "Timeout"
    /\ consumer_pc = "idle"

\* C40: with Event::next, which makes a new EventHandler for every call
\* and drops it on return, no event is read by a thread whose receiver has
\* been dropped, and every key, mouse or resize event that a thread has
\* read has been returned by a call or is queued for the call in progress.
C40_NoEventLostByEventNext ==
    /\ [][\A h \in DOMAIN handlers :
            (handlers[h].thread = "read" /\ handlers'[h].thread # "read")
               => handlers[h].receiver]_vars
    /\ [](\A i \in DOMAIN ExpectedSends(ReadSoFar) :
            LET e == ExpectedSends(ReadSoFar)[i]
            IN  \/ \E j \in DOMAIN delivered : delivered[j] = e
                \/ \E h \in DOMAIN handlers :
                     /\ handlers[h].receiver
                     /\ \E j \in DOMAIN handlers[h].channel :
                          handlers[h].channel[j] = e)

====
